---- MODULE Spec2Model ----
(***************************************************************************)
(* Virtual-host resolution and mutation engine of the nginx configurator   *)
(* (certbot_nginx/configurator.py, class NginxConfigurator).               *)
(*                                                                         *)
(* The configurator's own methods are translated from configurator.py.     *)
(* The collaborators it calls (certbot_nginx.parser, certbot_nginx.obj,    *)
(* the reverter of certbot.plugins.common) are not part of the source      *)
(* tree at hand; they are modelled from the specification's description of *)
(* their interfaces and are marked as such in the model map.               *)
(*                                                                         *)
(* A server name is a string; the string operations the matcher needs      *)
(* (split on '.', len) are tabulated over the bounded universe AllNames.   *)
(* A directive is the sequence of its tokens with whitespace removed, a    *)
(* server block is the sequence of its directives, and the parsed tree is  *)
(* the sequence of the server blocks (one configuration file).             *)
(***************************************************************************)
EXTENDS Integers, Sequences, FiniteSets, TLC

VARIABLES
    parsed,        \* parser.parsed: the in-memory config tree (Seq of blocks)
    new_vhost,     \* self.new_vhost: the cached synthetic host, or NoVhost
    save_notes,    \* self.save_notes: change notes since the last save
    disk,          \* the configuration files as last written / reverted
    backups,       \* the reverter's checkpoints (what a revert restores)
    last,          \* record of the most recent call and its outcome
    dup_count,     \* number of default-block duplications since new_vhost
                   \* was last cleared (history variable)
    saves,         \* number of save() calls so far (history variable)
    snakeoil,      \* number of self-signed certificates written to the
                   \* snakeoil directory so far
    version,       \* self.version: the version of the nginx binary
    calls,         \* number of installer calls so far (history variable)
    port_type,     \* type of self.config.tls_sni_01_port: "int" or "str"
    chall_out,     \* self._chall_out: number of outstanding challenges
    performed,     \* challenges passed to perform so far (history variable)
    cleaned,       \* challenges passed to cleanup so far (history variable)
    vhost_list,    \* input of _rank_matches_by_name_and_ssl
    target_name,   \* input of _rank_matches_by_name_and_ssl
    matches,       \* its result
    best,          \* result of _select_best_name_match
    pc             \* position of the ranking pipeline

vars == <<parsed, new_vhost, save_notes, disk, backups, last, dup_count,
          saves, snakeoil, version, calls, port_type, chall_out, performed,
          cleaned, vhost_list, target_name, matches, best, pc>>

engineVars == <<parsed, new_vhost, save_notes, disk, backups, last, dup_count,
                saves, snakeoil, version, calls, port_type, chall_out,
                performed, cleaned>>
rankVars == <<vhost_list, target_name, matches, best, pc>>

-----------------------------------------------------------------------------
(* Bounds of the model.                                                    *)

\* longest vhost list handed to the ranking function
MaxVhosts == 3

-----------------------------------------------------------------------------
(* Server names and the string operations on them.                         *)

ExactNames == {"x.a.example.com", "new.org", "_"}
WildcardNames == {"*.a.example.com", "*.example.com", "x.a.*", "x.*"}
RegexNames == {"~^x", "~.*com$"}
AllNames == ExactNames \cup WildcardNames \cup RegexNames

\* the domains a certificate is requested for
Targets == {"x.a.example.com", "new.org"}

\* name.split('.')
Labels(name) ==
    CASE name = "x.a.example.com" -> <<"x", "a", "example", "com">>
      [] name = "new.org"         -> <<"new", "org">>
      [] name = "_"               -> <<"_">>
      [] name = "*.a.example.com" -> <<"*", "a", "example", "com">>
      [] name = "*.example.com"   -> <<"*", "example", "com">>
      [] name = "x.a.*"           -> <<"x", "a", "*">>
      [] name = "x.*"             -> <<"x", "*">>
      [] name = "~^x"             -> <<"~^x">>
      [] name = "~.*com$"         -> <<"~", "*com$">>

\* len(label)
LabelLen(label) ==
    CASE label \in {"x", "a", "_", "*", "~"} -> 1
      [] label \in {"com", "org", "new", "~^x"} -> 3
      [] label = "*com$" -> 5
      [] label = "example" -> 7

RECURSIVE SumLabelLen(_)
SumLabelLen(labels) ==
    IF labels = <<>> THEN 0
    ELSE LabelLen(Head(labels)) + SumLabelLen(Tail(labels))

\* len(name): the labels and the dots between them
StrLen(name) == SumLabelLen(Labels(name)) + Len(Labels(name)) - 1

Reverse(s) == [i \in 1..Len(s) |-> s[Len(s) + 1 - i]]

\* Op(v), with v evaluated once: an intermediate result that the rest of a
\* method reads several times
Bind(v, Op(_)) == CHOOSE y \in {Op(x) : x \in {v}} : TRUE

\* labels.endswith(suffix), label by label
EndsWith(labels, suffix) ==
    /\ Len(suffix) <= Len(labels)
    /\ SubSeq(labels, Len(labels) - Len(suffix) + 1, Len(labels)) = suffix

\* the targets of the universe each regular expression matches (re.match)
RegexLanguage(name) ==
    CASE name = "~^x"     -> {"x.a.example.com"}
      [] name = "~.*com$" -> {"x.a.example.com"}
      [] OTHER            -> {}

-----------------------------------------------------------------------------
(* NameMatcher: parser.get_best_match and its helpers.                     *)

ExactMatch(target, name) == target = name

\* `*.suffix` matches a target ending in `.suffix` (start = TRUE);
\* `prefix.*` matches a target starting with `prefix.` (start = FALSE)
WildcardMatch(target, name, start) ==
    LET parts == IF start THEN Labels(target) ELSE Reverse(Labels(target))
        match_parts == IF start THEN Labels(name) ELSE Reverse(Labels(name))
    IN  /\ Len(match_parts) >= 2
        /\ Head(match_parts) = "*"
        /\ Len(parts) > Len(Tail(match_parts))
        /\ EndsWith(parts, Tail(match_parts))

RegexMatch(target, name) ==
    /\ name \in RegexNames
    /\ target \in RegexLanguage(name)

\* a name of the set with the longest string
LongestName(S) == CHOOSE n \in S : \A m \in S : StrLen(n) >= StrLen(m)

NoMatch == [type |-> "none", name |-> ""]

\* get_best_match(target_name, names) -> (type, name).  Where several names
\* of one kind are of the same length, or several regular expressions match,
\* the one returned depends on the iteration order of the name set; callers
\* read only the kind and the length of the wildcard name.
GetBestMatch(target, names) ==
    LET exact == {n \in names : ExactMatch(target, n)}
        wildcard_start == {n \in names \ exact : WildcardMatch(target, n, TRUE)}
        wildcard_end == {n \in names \ (exact \cup wildcard_start) :
                            WildcardMatch(target, n, FALSE)}
        regex == {n \in names \ (exact \cup wildcard_start \cup wildcard_end) :
                            RegexMatch(target, n)}
    IN  IF exact # {} THEN [type |-> "exact", name |-> LongestName(exact)]
        ELSE IF wildcard_start # {}
            THEN [type |-> "wildcard_start", name |-> LongestName(wildcard_start)]
        ELSE IF wildcard_end # {}
            THEN [type |-> "wildcard_end", name |-> LongestName(wildcard_end)]
        ELSE IF regex # {}
            THEN [type |-> "regex", name |-> CHOOSE n \in regex : TRUE]
        ELSE NoMatch

-----------------------------------------------------------------------------
(* VirtualHost objects.                                                    *)

\* the value None where a VirtualHost is expected
NoVhost == [path |-> 0, names |-> {}, ssl |-> FALSE, addrs |-> {}]


\* DEFAULT_LISTEN_PORT
DefaultListenPort == "80"

\* self.config.tls_sni_01_port
TlsSni01Port == "443"

\* self.config.tls_sni_01_port is handed in by the framework: an integer, or
\* a string in a configuration built by hand
PortTypes == {"int", "str"}

-----------------------------------------------------------------------------
(* Listen addresses: obj.Addr.fromstring.                                  *)

ListenAddresses == {"80", "443", "[::]:80", "[::]:443", "127.0.0.1"}

\* the part of a listen address after the host; an address without a port
\* has the port ""
AddrPort(address) ==
    CASE address \in {"80", "[::]:80"}   -> "80"
      [] address \in {"443", "[::]:443"} -> "443"
      [] address = "127.0.0.1"           -> ""

\* the host part; a bare port has none
AddrHost(address) ==
    CASE address \in {"[::]:80", "[::]:443"} -> "[::]"
      [] address = "127.0.0.1"               -> "127.0.0.1"
      [] OTHER                               -> ""

\* '[::]:{0}'.format(port)
Ipv6Listen(port) ==
    CASE port = "80"  -> "[::]:80"
      [] port = "443" -> "[::]:443"

Options(directive) == {directive[i] : i \in 3..Len(directive)}

\* Addr.fromstring(" ".join(directive[1:])) for a listen directive
ParseAddr(directive) ==
    [host     |-> AddrHost(directive[2]),
     port     |-> AddrPort(directive[2]),
     ssl      |-> "ssl" \in Options(directive),
     default  |-> "default_server" \in Options(directive),
     ipv6     |-> AddrHost(directive[2]) = "[::]",
     ipv6only |-> "ipv6only=on" \in Options(directive)]

-----------------------------------------------------------------------------
(* The config tree and the vhosts read from it: parser.parse_server,       *)
(* parser.get_vhosts, parser.has_ssl_on_directive.                         *)

IsListen(directive) == directive # <<>> /\ directive[1] = "listen"
IsServerName(directive) == directive # <<>> /\ directive[1] = "server_name"
IsSslOn(directive) == directive = <<"ssl", "on">>

DirectivesOf(block) == {block[i] : i \in 1..Len(block)}

\* has_ssl_on_directive(vhost), on the vhost's block
HasSslOnDirective(block) == \E d \in DirectivesOf(block) : IsSslOn(d)

\* parse_server(block): the addresses, the names and the SSL status of a
\* server block; a block-level `ssl on` makes every address an SSL address
ParseServer(block) ==
    LET listens == {d \in DirectivesOf(block) : IsListen(d)}
        ssl_on == HasSslOnDirective(block)
        addrs == {[ParseAddr(d) EXCEPT !.ssl = @ \/ ssl_on] : d \in listens}
        names == UNION {{d[i] : i \in 2..Len(d)} :
                            d \in {e \in DirectivesOf(block) : IsServerName(e)}}
    IN  [addrs |-> addrs,
         ssl   |-> ssl_on \/ \E a \in addrs : a.ssl,
         names |-> names]

\* the VirtualHost object of the block at `path`
VhostAt(tree, path) ==
    LET ps == ParseServer(tree[path])
    IN  [path |-> path, names |-> ps.names, ssl |-> ps.ssl, addrs |-> ps.addrs]

\* parser.get_vhosts(): one fresh VirtualHost per server block, in file order
GetVhosts(tree) == [i \in 1..Len(tree) |-> VhostAt(tree, i)]

\* vhost.ipv6_enabled(), vhost.ipv4_enabled()
Ipv6Enabled(vhost) == \E a \in vhost.addrs : a.ipv6
Ipv4Enabled(vhost) == vhost.addrs = {} \/ \E a \in vhost.addrs : ~a.ipv6

-----------------------------------------------------------------------------
(* MutationEngine primitives: parser.add_server_directives,                *)
(* parser.duplicate_vhost.                                                 *)

\* directives that may appear more than once in a block
RepeatableDirectives == {"server_name", "listen", "include", "rewrite"}

\* index of the first directive of the block with the given key, 0 if none
FindLocation(block, key) ==
    IF \E i \in 1..Len(block) : block[i][1] = key
    THEN CHOOSE i \in 1..Len(block) :
            /\ block[i][1] = key
            /\ \A j \in 1..(i - 1) : block[j][1] # key
    ELSE 0

\* Add or replace one directive.  replace: the first directive with the same
\* key is replaced, and the directive is added when there is none.  append:
\* the directive is added when its key is new or repeatable; an identical
\* directive already present is left alone; a different one with the same
\* key is a conflict (MisconfigurationError).  A comment is always added.
\* Whitespace entries (the empty directive) are not kept in the model's
\* blocks, and neither are the "managed by Certbot" marker comments.
AddDirective(block, directive, replace) ==
    LET location == FindLocation(block, directive[1])
    IN  IF directive = <<>> THEN [ok |-> TRUE, block |-> block]
        ELSE IF directive[1] = "#"
            THEN [ok |-> TRUE, block |-> Append(block, directive)]
        ELSE IF replace /\ location # 0
            THEN [ok |-> TRUE, block |-> [block EXCEPT ![location] = directive]]
        ELSE IF location = 0 \/ directive[1] \in RepeatableDirectives
            THEN [ok |-> TRUE, block |-> Append(block, directive)]
        ELSE IF block[location] # directive
            THEN [ok |-> FALSE, block |-> block]
        ELSE [ok |-> TRUE, block |-> block]

\* the directives are added one after the other; the first conflict stops
\* the loop and the directives added before it stay in the block
RECURSIVE AddDirectives(_, _, _)
AddDirectives(block, directives, replace) ==
    IF directives = <<>> THEN [ok |-> TRUE, block |-> block]
    ELSE Bind(AddDirective(block, Head(directives), replace),
              LAMBDA r : IF r.ok
                         THEN AddDirectives(r.block, Tail(directives), replace)
                         ELSE r)

\* add_server_directives(vhost, directives, replace): changes the vhost's
\* block in the tree and, when no conflict was raised, makes the VirtualHost
\* object consistent with the new directives
AddServerDirectives(tree, vhost, directives, replace) ==
    Bind(AddDirectives(tree[vhost.path], directives, replace),
         LAMBDA r :
            Bind([tree EXCEPT ![vhost.path] = r.block],
                 LAMBDA tree1 :
                    [ok    |-> r.ok,
                     tree  |-> tree1,
                     vhost |-> IF r.ok THEN VhostAt(tree1, vhost.path)
                               ELSE vhost]))

\* a listen directive without its default_server flag
WithoutDefault(directive) ==
    IF IsListen(directive)
    THEN SelectSeq(directive, LAMBDA tok : tok # "default_server")
    ELSE directive

\* duplicate_vhost(vhost_template, delete_default=True): a copy of the block
\* is appended to the tree, its listen directives lose default_server, and
\* the new VirtualHost is a copy of the template at the new path with the
\* default flag of its addresses cleared
DuplicateVhost(tree, template) ==
    LET block == [i \in 1..Len(tree[template.path]) |->
                        WithoutDefault(tree[template.path][i])]
    IN  [tree  |-> Append(tree, block),
         vhost |-> [template EXCEPT
                        !.path = Len(tree) + 1,
                        !.addrs = {[a EXCEPT !.default = FALSE] : a \in @}]]

\* duplicate_vhost(vhost_template, only_directives=...): the copy holds only
\* the directives with one of the given keys, default_server flags included
DuplicateVhostOnly(tree, template, only_directives) ==
    LET block == SelectSeq(tree[template.path],
                           LAMBDA d : d[1] \in only_directives)
    IN  [tree  |-> Append(tree, block),
         vhost |-> [template EXCEPT !.path = Len(tree) + 1]]

\* remove_server_directives(vhost, key, match_func): the directives with
\* that key that the predicate holds of (given as the set `matching`) are
\* removed, and the VirtualHost is made consistent with the block
RemoveServerDirectives(tree, vhost, key, matching) ==
    LET block == SelectSeq(tree[vhost.path],
                           LAMBDA d : ~(d[1] = key /\ d \in matching))
        tree1 == [tree EXCEPT ![vhost.path] = block]
    IN  [tree |-> tree1, vhost |-> VhostAt(tree1, vhost.path)]

\* vhost.contains_list(test): the block holds the test list as a run of
\* consecutive directives
ContainsList(block, test) ==
    \E i \in 0..(Len(block) - Len(test)) :
        SubSeq(block, i + 1, i + Len(test)) = test

\* vhost.has_redirect(): the block holds a return or a rewrite directive
HasRedirect(block) ==
    \E d \in DirectivesOf(block) : d[1] \in {"return", "rewrite"}

-----------------------------------------------------------------------------
(* VhostResolver: ranking and selection.                                   *)

\* the rank literals of _rank_matches_by_name_and_ssl
RankOfMutSwapEnd(name_type, ssl) ==
    CASE name_type = "exact"          -> IF ssl THEN 0 ELSE 1
      [] name_type = "wildcard_start" -> IF ssl THEN 2 ELSE 3
      [] name_type = "wildcard_end"   -> IF ssl THEN 5 ELSE 4
      [] name_type = "regex"          -> IF ssl THEN 6 ELSE 7

RankOf(name_type, ssl) ==
    CASE name_type = "exact"          -> IF ssl THEN 0 ELSE 1
      [] name_type = "wildcard_start" -> IF ssl THEN 2 ELSE 3
      [] name_type = "wildcard_end"   -> IF ssl THEN 4 ELSE 5
      [] name_type = "regex"          -> IF ssl THEN 6 ELSE 7

\* the loop body: the entries one vhost contributes to matches
MatchEntry(vhost, target) ==
    LET m == GetBestMatch(target, vhost.names)
    IN  IF m.type = "none" THEN <<>>
        ELSE <<[vhost |-> vhost, name |-> m.name, rank |-> RankOf(m.type, vhost.ssl)]>>

RECURSIVE CollectMatches(_, _)
CollectMatches(vhosts, target) ==
    IF vhosts = <<>> THEN <<>>
    ELSE MatchEntry(Head(vhosts), target) \o CollectMatches(Tail(vhosts), target)

RECURSIVE EntriesFromRank(_, _)
EntriesFromRank(ms, r) ==
    IF r > 7 THEN <<>>
    ELSE SelectSeq(ms, LAMBDA m : m.rank = r) \o EntriesFromRank(ms, r + 1)

\* a sort that reverses the order of appearance among equal ranks
SortedByRankMutUnstable(ms) == EntriesFromRank(Reverse(ms), 0)

\* sorted(matches, key=lambda x: x['rank']): ascending and stable
SortedByRank(ms) == EntriesFromRank(ms, 0)

RankMatchesByNameAndSsl(vhosts, target) ==
    SortedByRank(CollectMatches(vhosts, target))

\* the last entry of maximal name length
MaxByNameLenMutLast(wildcards) ==
    LET i == CHOOSE i \in 1..Len(wildcards) :
                /\ \A j \in 1..Len(wildcards) :
                      StrLen(wildcards[i].name) >= StrLen(wildcards[j].name)
                /\ \A j \in (i + 1)..Len(wildcards) :
                      StrLen(wildcards[j].name) < StrLen(wildcards[i].name)
    IN  wildcards[i]

\* max(wildcards, key=lambda x: len(x['name'])): the first entry of maximal
\* name length
MaxByNameLen(wildcards) ==
    LET i == CHOOSE i \in 1..Len(wildcards) :
                /\ \A j \in 1..Len(wildcards) :
                      StrLen(wildcards[i].name) >= StrLen(wildcards[j].name)
                /\ \A j \in 1..(i - 1) :
                      StrLen(wildcards[j].name) < StrLen(wildcards[i].name)
    IN  wildcards[i]

\* a selection that never applies the longest-name search
SelectBestNameMatchMutNoLongest(ms) ==
    IF ms = <<>> THEN NoVhost ELSE ms[1].vhost

SelectBestNameMatch(ms) ==
    IF ms = <<>> THEN NoVhost
    ELSE IF ms[1].rank \in 2..5
        THEN MaxByNameLen(SelectSeq(ms, LAMBDA x : x.rank = ms[1].rank)).vhost
    ELSE ms[1].vhost

-----------------------------------------------------------------------------
(* MutationEngine: _make_server_ssl.                                       *)

\* the port of an address never equals the port looked for
GetPortEqualsMutNever(addr_port, port) == FALSE

\* "addr.get_port() == port": get_port() is a string, and in Python a
\* string equals no integer, whatever its digits
GetPortEquals(addr_port, port) == port_type = "str" /\ addr_port = port

\* ipv6_info(port) -> (ipv6_active, ipv6only_present)
Ipv6Info(tree, port) ==
    LET addrs == UNION {GetVhosts(tree)[i].addrs : i \in 1..Len(tree)}
    IN  [ipv6_active      |-> \E a \in addrs : a.ipv6,
         ipv6only_present |-> \E a \in addrs :
                                 a.ipv6only /\ GetPortEquals(a.port, port)]

\* The paths _get_snakeoil_paths returns when n certificates have been
\* written before: every call writes a new key and a new certificate under
\* a file name not yet in use (util.unique_file).
SnakeoilCert(n) ==
    CASE n = 0 -> "snakeoil/0000_cert.pem"
      [] n = 1 -> "snakeoil/0001_cert.pem"
      [] n = 2 -> "snakeoil/0002_cert.pem"
      [] n = 3 -> "snakeoil/0003_cert.pem"
      [] n = 4 -> "snakeoil/0004_cert.pem"

SnakeoilKey(n) ==
    CASE n = 0 -> "snakeoil/0000_key.pem"
      [] n = 1 -> "snakeoil/0001_key.pem"
      [] n = 2 -> "snakeoil/0002_key.pem"
      [] n = 3 -> "snakeoil/0003_key.pem"
      [] n = 4 -> "snakeoil/0004_key.pem"

\* the paths mod_ssl_conf and ssl_dhparams return
ModSslConf == "options-ssl-nginx.conf"
SslDhparams == "ssl-dhparams.pem"

\* the directives _make_server_ssl adds to a vhost: the SSL listeners for
\* the address families the vhost serves, and the certificate directives
SslBlock(vhost, ipv6info, n) ==
    LET ipv6_block == IF Ipv6Enabled(vhost)
                      THEN <<"listen", Ipv6Listen(TlsSni01Port), "ssl">>
                           \o (IF ~ipv6info.ipv6only_present
                               THEN <<"ipv6only=on">> ELSE <<>>)
                      ELSE <<>>
        ipv4_block == IF Ipv4Enabled(vhost)
                      THEN <<"listen", TlsSni01Port, "ssl">>
                      ELSE <<>>
    IN  << ipv6_block,
           ipv4_block,
           <<"ssl_certificate", SnakeoilCert(n)>>,
           <<"ssl_certificate_key", SnakeoilKey(n)>>,
           <<"include", ModSslConf>>,
           <<"ssl_dhparam", SslDhparams>> >>

\* _make_server_ssl(vhost) -> the tree and the vhost afterwards; ok is FALSE
\* when add_server_directives raised.  A vhost without a listen directive
\* first gets an explicit listener on the default port.  n is the number of
\* snakeoil certificates written before the call.
MakeServerSsl(tree, vhost, n) ==
    Bind(Ipv6Info(tree, TlsSni01Port),
         LAMBDA ipv6info :
            Bind(IF vhost.addrs = {}
                 THEN AddServerDirectives(tree, vhost,
                            << <<"listen", DefaultListenPort>> >>, FALSE)
                 ELSE [ok |-> TRUE, tree |-> tree, vhost |-> vhost],
                 LAMBDA r1 :
                    IF r1.ok
                    THEN AddServerDirectives(r1.tree, r1.vhost,
                                SslBlock(r1.vhost, ipv6info, n), FALSE)
                    ELSE r1))

-----------------------------------------------------------------------------
(* VhostResolver: synthesis and choose_vhost.                              *)

\* the error choose_vhost raises when nothing matches and nothing may be
\* created: "... please add a corresponding server_name directive ..."
ErrNoMatch == "MisconfigurationError: add a server_name directive"
\* the error of _get_default_vhost
ErrNoDefault == "MisconfigurationError: no unique default server block"
\* a conflict raised by add_server_directives
ErrConflict == "MisconfigurationError: conflicting directive"

\* a guess among several default blocks
UniqueDefaultMutGuess(default_vhosts) == Len(default_vhosts) >= 1

\* len(default_vhosts) == 1
UniqueDefault(default_vhosts) == Len(default_vhosts) = 1

\* _get_default_vhost(): the vhost with a default-flagged address, if it is
\* the only one
GetDefaultVhost(tree) ==
    LET default_vhosts ==
            SelectSeq(GetVhosts(tree), LAMBDA vh : \E a \in vh.addrs : a.default)
    IN  IF UniqueDefault(default_vhosts)
        THEN [ok |-> TRUE, vhost |-> default_vhosts[1]]
        ELSE [ok |-> FALSE, vhost |-> NoVhost]

\* the tokens of a name set, in some order
RECURSIVE SetToSeq(_)
SetToSeq(S) ==
    IF S = {} THEN <<>>
    ELSE LET x == CHOOSE x \in S : TRUE IN <<x>> \o SetToSeq(S \ {x})

\* the server_name directive is appended instead of replaced
ServerNameReplaceMutAppend == FALSE

\* replace=True in _add_server_name_to_vhost
ServerNameReplace == TRUE

\* _add_server_name_to_vhost(vhost, domain)
AddServerNameToVhost(tree, vhost, domain) ==
    Bind(vhost.names \cup {domain},
         LAMBDA names :
            AddServerDirectives(tree, [vhost EXCEPT !.names = names],
                                << <<"server_name">> \o SetToSeq(names) >>,
                                ServerNameReplace))

\* the cached host is never reused
NewVhostIsNoneMutAlways(cached) == TRUE

\* self.new_vhost is None
NewVhostIsNone(cached) == cached = NoVhost

\* the names of the default block are kept
ClearedNamesMutKeep(vhost) == vhost.names

\* self.new_vhost.names = set()
ClearedNames(vhost) == {}

\* the first part of _vhost_from_duplicated_default: with nothing cached
\* the default block is duplicated and the copy's name set is emptied
NewVhostFromDefault(tree, cached) ==
    IF ~NewVhostIsNone(cached)
    THEN [ok |-> TRUE, tree |-> tree, new_vhost |-> cached, duplicated |-> FALSE]
    ELSE Bind(GetDefaultVhost(tree),
              LAMBDA dflt :
                 IF ~dflt.ok
                 THEN [ok |-> FALSE, tree |-> tree, new_vhost |-> cached,
                       duplicated |-> FALSE]
                 ELSE Bind(DuplicateVhost(tree, dflt.vhost),
                           LAMBDA dup :
                              [ok |-> TRUE, tree |-> dup.tree,
                               new_vhost |-> [dup.vhost EXCEPT
                                                !.names = ClearedNames(dup.vhost)],
                               duplicated |-> TRUE]))

\* _vhost_from_duplicated_default(domain) -> the tree, the cached host (which
\* is also the host returned) and whether the default block was duplicated
VhostFromDuplicatedDefault(tree, cached, domain) ==
    Bind(NewVhostFromDefault(tree, cached),
         LAMBDA n :
            IF ~n.ok
            THEN [ok |-> FALSE, error |-> ErrNoDefault, tree |-> n.tree,
                  new_vhost |-> n.new_vhost, duplicated |-> FALSE]
            ELSE Bind(AddServerNameToVhost(n.tree, n.new_vhost, domain),
                      LAMBDA r :
                         [ok |-> r.ok,
                          error |-> IF r.ok THEN "" ELSE ErrConflict,
                          tree |-> r.tree, new_vhost |-> r.vhost,
                          duplicated |-> n.duplicated]))

\* create_if_no_match is ignored
MayCreateMutAlways(create_if_no_match) == TRUE

\* if create_if_no_match
MayCreate(create_if_no_match) == create_if_no_match

\* TLS is never enabled
NeedsSslMutNever(vhost) == FALSE

\* if not vhost.ssl
NeedsSsl(vhost) == ~vhost.ssl

\* The result of choose_vhost holds the outcome (ok, error), the host
\* returned, the tree and the cached synthetic host afterwards, and what was
\* done on the way: synthesized (the host came from
\* _vhost_from_duplicated_default), duplicated (the default block was
\* copied), made_ssl (_make_server_ssl was called).
ChooseFailed(error, tree, cached, duplicated) ==
    [ok |-> FALSE, error |-> error, vhost |-> NoVhost, tree |-> tree,
     new_vhost |-> cached, synthesized |-> FALSE, duplicated |-> duplicated,
     made_ssl |-> FALSE]

\* the end of choose_vhost: the host is made SSL if it is not, and returned;
\* a synthesized host is the cached object itself
ChooseFinish(vhost, tree, cached, synthesized, duplicated, n) ==
    IF ~NeedsSsl(vhost)
    THEN [ok |-> TRUE, error |-> "", vhost |-> vhost, tree |-> tree,
          new_vhost |-> IF synthesized THEN vhost ELSE cached,
          synthesized |-> synthesized, duplicated |-> duplicated,
          made_ssl |-> FALSE]
    ELSE Bind(MakeServerSsl(tree, vhost, n),
              LAMBDA r :
                 [ok |-> r.ok, error |-> IF r.ok THEN "" ELSE ErrConflict,
                  vhost |-> IF r.ok THEN r.vhost ELSE NoVhost,
                  tree |-> r.tree,
                  new_vhost |-> IF synthesized THEN r.vhost ELSE cached,
                  synthesized |-> synthesized, duplicated |-> duplicated,
                  made_ssl |-> TRUE])

\* choose_vhost(target_name, create_if_no_match), with n snakeoil
\* certificates written before the call
ChooseVhost(tree, cached, target, create_if_no_match, n) ==
    Bind(SelectBestNameMatch(RankMatchesByNameAndSsl(GetVhosts(tree), target)),
         LAMBDA found :
            IF found # NoVhost
            THEN ChooseFinish(found, tree, cached, FALSE, FALSE, n)
            ELSE IF MayCreate(create_if_no_match)
                THEN Bind(VhostFromDuplicatedDefault(tree, cached, target),
                          LAMBDA synth :
                             IF synth.ok
                             THEN ChooseFinish(synth.new_vhost, synth.tree,
                                               cached, TRUE, synth.duplicated,
                                               n)
                             ELSE ChooseFailed(synth.error, synth.tree,
                                               synth.new_vhost, synth.duplicated))
            ELSE ChooseFailed(ErrNoMatch, tree, cached, FALSE))

-----------------------------------------------------------------------------
(* VhostResolver: the vhost a redirect is added to.                        *)

\* a port is compared as written, also when the address names none
PortMatchesMutExact(test_port, matching_port) == test_port = matching_port

\* _port_matches(test_port, matching_port): an address without a port
\* listens on the default port
PortMatches(test_port, matching_port) ==
    IF matching_port = ""
    THEN test_port = DefaultListenPort
    ELSE test_port = matching_port

\* the block-level `ssl on` is not looked at
SslOnExcludesMutNever(block) == FALSE

\* "make sure we don't have an 'ssl on' directive"
SslOnExcludes(block) == HasSslOnDirective(block)

\* _vhost_matches(vhost, port): the vhost listens on the port without SSL
\* (a vhost without any listen directive listens on the default port) and
\* has no `ssl on` directive
VhostMatches(tree, vhost, port) ==
    LET found_matching_port ==
            IF vhost.addrs = {}
            THEN port = DefaultListenPort
            ELSE \E addr \in vhost.addrs :
                    PortMatches(port, addr.port) /\ addr.ssl = FALSE
    IN  IF found_matching_port
        THEN ~SslOnExcludes(tree[vhost.path])
        ELSE FALSE

\* _get_redirect_ranked_matches(target_name, port)
GetRedirectRankedMatches(tree, target, port) ==
    RankMatchesByNameAndSsl(
        SelectSeq(GetVhosts(tree), LAMBDA vhost : VhostMatches(tree, vhost, port)),
        target)

\* choose_redirect_vhost(target_name, port)
ChooseRedirectVhost(tree, target, port) ==
    SelectBestNameMatch(GetRedirectRankedMatches(tree, target, port))

-----------------------------------------------------------------------------
(* MutationEngine and EnhancementController: redirect.                     *)

\* REDIRECT_BLOCK and REDIRECT_COMMENT_BLOCK; the last entry of each is
\* the whitespace entry ['\n']
RedirectBlock ==
    << <<"return", "301", "https://$host$request_uri">>, <<>> >>

RedirectCommentBlock ==
    << <<"#", " Redirect non-https traffic to https">>,
       <<"#", " return 301 https://$host$request_uri;">>,
       <<>> >>

\* _test_block_from_block(block): the block without its last entry (the
\* marker comment that comment_directive puts in is not modelled)
TestBlockFromBlock(block) == SubSeq(block, 1, Len(block) - 1)

\* _has_certbot_redirect(vhost), _has_certbot_redirect_comment(vhost)
HasCertbotRedirect(block) ==
    ContainsList(block, TestBlockFromBlock(RedirectBlock))

HasCertbotRedirectComment(block) ==
    ContainsList(block, TestBlockFromBlock(RedirectCommentBlock))

\* the comment block whatever `active` says
RedirectBlockForMutComment(active) == RedirectCommentBlock

\* _add_redirect_block: the block chosen by `active`
RedirectBlockFor(active) ==
    IF active THEN RedirectBlock ELSE RedirectCommentBlock

\* _add_redirect_block(vhost, active)
AddRedirectBlock(tree, vhost, active) ==
    AddServerDirectives(tree, vhost, RedirectBlockFor(active), FALSE)

\* no listen directive is taken for an SSL one
SslMatchFuncMutNone(directive) == FALSE

\* _ssl_match_func, _no_ssl_match_func: 'ssl' in directive
SslMatchFunc(directive) == \E i \in 1..Len(directive) : directive[i] = "ssl"

NoSslMatchFunc(directive) == \A i \in 1..Len(directive) : directive[i] # "ssl"

\* The split of an SSL vhost in _enable_redirect: its listen and
\* server_name directives are copied to a new block, the SSL listeners are
\* removed from the new block and the others from the existing one.
\* -> the tree, the existing vhost and the new one
SplitForRedirect(tree, vhost) ==
    Bind(DuplicateVhostOnly(tree, vhost, {"listen", "server_name"}),
         LAMBDA dup :
            Bind(RemoveServerDirectives(dup.tree, dup.vhost, "listen",
                    {d \in DirectivesOf(dup.tree[dup.vhost.path]) :
                        SslMatchFunc(d)}),
                 LAMBDA r1 :
                    Bind(RemoveServerDirectives(r1.tree, vhost, "listen",
                            {d \in DirectivesOf(r1.tree[vhost.path]) :
                                NoSslMatchFunc(d)}),
                         LAMBDA r2 :
                            [tree |-> r2.tree, vhost |-> r2.vhost,
                             new_vhost |-> r1.vhost])))

\* another redirect never keeps Certbot's from being added
BlocksRedirectMutNever(block) == FALSE

\* "elif vhost.has_redirect()"
BlocksRedirect(block) == HasRedirect(block)

\* The last part of _enable_redirect, for the vhost the redirect goes to.
\* outcome: "already" (Certbot's redirect is there), "commented" (another
\* redirect is there, the comment block was added), "comment_present"
\* (another redirect and the comment block are there), "added".
DecideRedirect(tree, vhost) ==
    LET block == tree[vhost.path]
    IN  IF HasCertbotRedirect(block)
        THEN [ok |-> TRUE, tree |-> tree, outcome |-> "already"]
        ELSE IF BlocksRedirect(block)
        THEN IF ~HasCertbotRedirectComment(block)
             THEN Bind(AddRedirectBlock(tree, vhost, FALSE),
                       LAMBDA r : [ok |-> r.ok, tree |-> r.tree,
                                   outcome |-> "commented"])
             ELSE [ok |-> TRUE, tree |-> tree, outcome |-> "comment_present"]
        ELSE Bind(AddRedirectBlock(tree, vhost, TRUE),
                  LAMBDA r : [ok |-> r.ok, tree |-> r.tree,
                              outcome |-> "added"])

\* _enable_redirect(domain, unused_options) -> ok, the tree afterwards, the
\* outcome ("no_vhost" when no vhost was found), the path of the vhost
\* selected (0 if none), whether it was split, and the path of the block
\* the redirect was decided for
EnableRedirect(tree, domain) ==
    Bind(ChooseRedirectVhost(tree, domain, DefaultListenPort),
         LAMBDA vhost :
            IF vhost = NoVhost
            THEN [ok |-> TRUE, tree |-> tree, outcome |-> "no_vhost",
                  selected |-> 0, split |-> FALSE, target |-> 0]
            ELSE IF vhost.ssl
            THEN Bind(SplitForRedirect(tree, vhost),
                      LAMBDA sp :
                         Bind(DecideRedirect(sp.tree, sp.new_vhost),
                              LAMBDA r :
                                 [ok |-> r.ok, tree |-> r.tree,
                                  outcome |-> r.outcome,
                                  selected |-> vhost.path, split |-> TRUE,
                                  target |-> sp.new_vhost.path]))
            ELSE Bind(DecideRedirect(tree, vhost),
                      LAMBDA r :
                         [ok |-> r.ok, tree |-> r.tree, outcome |-> r.outcome,
                          selected |-> vhost.path, split |-> FALSE,
                          target |-> vhost.path]))

-----------------------------------------------------------------------------
(* Installer operations: deploy_cert, enhance, OCSP stapling.              *)

\* a path argument that was not given (None)
NoPath == "<None>"

ErrNoFullchain == "PluginError: --fullchain-path is required"
ErrUnsupported == "PluginError: Unsupported enhancement"
ErrVersion == "PluginError: nginx 1.3.7 or greater is needed"
ErrNoChain == "PluginError: --chain-path is required"
ErrStapling == "PluginError: error while enabling OCSP stapling"

\* the redirect part of a result when no redirect was asked for
NoRedirect == [outcome |-> "none", selected |-> 0, split |-> FALSE, target |-> 0]

\* What an installer operation returns to the model: the outcome, the tree,
\* the cached host and the save notes afterwards, the vhost it worked on,
\* whether _make_server_ssl was called, the handler that ran, and what
\* _enable_redirect did.
Unchanged(ok, error, tree, cached, notes, handler) ==
    [ok |-> ok, error |-> error, tree |-> tree, new_vhost |-> cached,
     save_notes |-> notes, vhost |-> NoVhost, made_ssl |-> FALSE,
     handler |-> handler, redirect |-> NoRedirect]

\* a missing fullchain path is let through
MissingPathMutNever(path) == FALSE

\* "if not fullchain_path": None or the empty string
MissingPath(path) == path = NoPath \/ path = ""

\* the certificate file is named in place of the full chain
CertDirectivesMutCertPath(cert_path, key_path, fullchain_path) ==
    << <<"ssl_certificate", cert_path>>,
       <<"ssl_certificate_key", key_path>> >>

\* cert_directives of deploy_cert
CertDirectives(cert_path, key_path, fullchain_path) ==
    << <<"ssl_certificate", fullchain_path>>,
       <<"ssl_certificate_key", key_path>> >>

\* the three notes deploy_cert appends to save_notes
DeployNotes(vhost, key_path, fullchain_path) ==
    << <<"Changed vhost", vhost.path>>,
       <<"ssl_certificate", fullchain_path>>,
       <<"ssl_certificate_key", key_path>> >>

\* deploy_cert(domain, cert_path, key_path, chain_path, fullchain_path)
DeployCert(tree, cached, notes, domain, cert_path, key_path, fullchain_path, n) ==
    IF MissingPath(fullchain_path)
    THEN Unchanged(FALSE, ErrNoFullchain, tree, cached, notes, "deploy_cert")
    ELSE Bind(ChooseVhost(tree, cached, domain, TRUE, n),
              LAMBDA ch :
                 IF ~ch.ok
                 THEN [ok |-> FALSE, error |-> ch.error, tree |-> ch.tree,
                       new_vhost |-> ch.new_vhost, save_notes |-> notes,
                       vhost |-> NoVhost, made_ssl |-> ch.made_ssl,
                       handler |-> "deploy_cert", redirect |-> NoRedirect]
                 ELSE Bind(AddServerDirectives(ch.tree, ch.vhost,
                                CertDirectives(cert_path, key_path,
                                               fullchain_path), TRUE),
                           LAMBDA r :
                              [ok |-> r.ok,
                               error |-> IF r.ok THEN "" ELSE ErrConflict,
                               tree |-> r.tree,
                               new_vhost |-> IF ch.synthesized THEN r.vhost
                                             ELSE ch.new_vhost,
                               save_notes |-> IF r.ok
                                   THEN notes \o DeployNotes(r.vhost, key_path,
                                                             fullchain_path)
                                   ELSE notes,
                               vhost |-> r.vhost,
                               made_ssl |-> ch.made_ssl,
                               handler |-> "deploy_cert",
                               redirect |-> NoRedirect]))

\* the version stapling needs, and the comparison of version tuples
MinStaplingVersion == <<1, 3, 7>>

\* a version is taken for less when any of its parts is less
VersionLessMutAnyPart(a, b) == \E k \in 1..3 : a[k] < b[k]

VersionLess(a, b) ==
    \/ a[1] < b[1]
    \/ a[1] = b[1] /\ a[2] < b[2]
    \/ a[1] = b[1] /\ a[2] = b[2] /\ a[3] < b[3]

StaplingDirectives(chain_path) ==
    << <<"ssl_trusted_certificate", chain_path>>,
       <<"ssl_stapling", "on">>,
       <<"ssl_stapling_verify", "on">>,
       <<>> >>

\* the four notes _enable_ocsp_stapling appends to save_notes
StaplingNotes(vhost, chain_path) ==
    << <<"OCSP Stapling was enabled", vhost.path>>,
       <<"ssl_trusted_certificate", chain_path>>,
       <<"ssl_stapling", "on">>,
       <<"ssl_stapling_verify", "on">> >>

\* _enable_ocsp_stapling(domain, chain_path): the vhost is chosen (and made
\* SSL if it is not) before the version and the chain path are looked at
EnableOcspStapling(tree, cached, notes, domain, chain_path, nginx_version, n) ==
    Bind(ChooseVhost(tree, cached, domain, FALSE, n),
         LAMBDA ch :
            LET failed(error) ==
                    [ok |-> FALSE, error |-> error, tree |-> ch.tree,
                     new_vhost |-> ch.new_vhost, save_notes |-> notes,
                     vhost |-> ch.vhost, made_ssl |-> ch.made_ssl,
                     handler |-> "_enable_ocsp_stapling",
                     redirect |-> NoRedirect]
            IN  IF ~ch.ok THEN failed(ch.error)
                ELSE IF VersionLess(nginx_version, MinStaplingVersion)
                    THEN failed(ErrVersion)
                ELSE IF chain_path = NoPath THEN failed(ErrNoChain)
                ELSE Bind(AddServerDirectives(ch.tree, ch.vhost,
                                StaplingDirectives(chain_path), FALSE),
                          LAMBDA r :
                             [ok |-> r.ok,
                              error |-> IF r.ok THEN "" ELSE ErrStapling,
                              tree |-> r.tree,
                              new_vhost |-> ch.new_vhost,
                              save_notes |-> IF r.ok
                                  THEN notes \o StaplingNotes(r.vhost, chain_path)
                                  ELSE notes,
                              vhost |-> r.vhost,
                              made_ssl |-> ch.made_ssl,
                              handler |-> "_enable_ocsp_stapling",
                              redirect |-> NoRedirect]))

\* supported_enhancements()
SupportedEnhancements == {"redirect", "staple-ocsp"}

\* a dispatch table without the stapling entry
EnhanceFuncMutNoStaple == [k \in {"redirect"} |-> "_enable_redirect"]

\* self._enhance_func: the handler of each enhancement
EnhanceFunc ==
    [k \in {"redirect", "staple-ocsp"} |->
        IF k = "redirect" THEN "_enable_redirect" ELSE "_enable_ocsp_stapling"]

\* enhance(domain, enhancement, options): a kind without an entry in the
\* dispatch table is a KeyError, reported as an unsupported enhancement; an
\* error raised by the handler is passed on
Enhance(tree, cached, notes, domain, enhancement, options, nginx_version, n) ==
    IF enhancement \notin DOMAIN EnhanceFunc
    THEN Unchanged(FALSE, ErrUnsupported, tree, cached, notes, "none")
    ELSE IF EnhanceFunc[enhancement] = "_enable_redirect"
    THEN Bind(EnableRedirect(tree, domain),
              LAMBDA r :
                 [ok |-> r.ok,
                  error |-> IF r.ok THEN "" ELSE ErrConflict,
                  tree |-> r.tree, new_vhost |-> cached, save_notes |-> notes,
                  vhost |-> NoVhost, made_ssl |-> FALSE,
                  handler |-> "_enable_redirect",
                  redirect |-> [outcome |-> r.outcome, selected |-> r.selected,
                                split |-> r.split, target |-> r.target]])
    ELSE EnableOcspStapling(tree, cached, notes, domain, options,
                            nginx_version, n)

-----------------------------------------------------------------------------
(* The checkpoint collaborator (reverter) and the parser's file access.    *)

NoBackups == [temp |-> <<>>, inprog |-> <<>>, finalized |-> <<>>]

\* add_to_checkpoint(save_files, save_notes, temporary): the files as they
\* are on disk are backed up unless the checkpoint already holds them
AddToCheckpoint(bk, files, temporary) ==
    IF temporary
    THEN [bk EXCEPT !.temp = IF @ = <<>> THEN <<files>> ELSE @]
    ELSE [bk EXCEPT !.inprog = IF @ = <<>> THEN <<files>> ELSE @]

\* finalize_checkpoint(title): the in-progress checkpoint becomes permanent
FinalizeCheckpoint(bk) ==
    IF bk.inprog = <<>> THEN bk
    ELSE [bk EXCEPT !.finalized = Append(@, bk.inprog[1]), !.inprog = <<>>]

\* revert_temporary_config(): the files and the checkpoints afterwards
RevertTemporaryConfig(bk, files) ==
    [files   |-> IF bk.temp = <<>> THEN files ELSE bk.temp[1],
     backups |-> [bk EXCEPT !.temp = <<>>]]

\* the reverter's recovery_routine(): the temporary checkpoint is reverted,
\* then the in-progress one
RevertUncommitted(bk, files) ==
    LET t == RevertTemporaryConfig(bk, files)
    IN  [files   |-> IF bk.inprog = <<>> THEN t.files ELSE bk.inprog[1],
         backups |-> [t.backups EXCEPT !.inprog = <<>>]]

Min(a, b) == IF a <= b THEN a ELSE b

\* the reverter's rollback_checkpoints(rollback): the latest `rollback`
\* permanent checkpoints are reverted, as many as there are
RevertCheckpoints(bk, files, rollback) ==
    LET n == Min(rollback, Len(bk.finalized))
        keep == Len(bk.finalized) - n
    IN  [files   |-> IF n = 0 THEN files ELSE bk.finalized[keep + 1],
         backups |-> [bk EXCEPT !.finalized = SubSeq(@, 1, keep)]]

-----------------------------------------------------------------------------
(* The configurator session.                                               *)

\* most server blocks the tree may grow to
MaxBlocks == 3
\* most directives a server block may grow to
MaxBlockLen == 10
\* most save() calls in a session
MaxSaves == 1
\* most snakeoil certificates written in a session
MaxSnakeoil == 2

OldCert == "/etc/ssl/old.pem"
OldKey == "/etc/ssl/old.key"

\* the server blocks configurations are made of
BlockMenu ==
    { \* plaintext default server
      << <<"listen", "80", "default_server">>, <<"server_name", "_">> >>,
      \* plaintext default server on IPv4 and IPv6 without a server_name
      << <<"listen", "80", "default_server">>,
         <<"listen", "[::]:80", "default_server", "ipv6only=on">> >>,
      \* SSL default server
      << <<"listen", "443", "ssl", "default_server">>, <<"server_name", "_">>,
         <<"ssl_certificate", OldCert>>, <<"ssl_certificate_key", OldKey>> >>,
      \* plaintext default server that already names a certificate
      << <<"listen", "80", "default_server">>, <<"server_name", "_">>,
         <<"ssl_certificate", OldCert>> >>,
      \* plaintext server without a listen directive
      << <<"server_name", "x.a.example.com">> >>,
      \* SSL wildcard server
      << <<"listen", "443", "ssl">>, <<"server_name", "*.example.com">>,
         <<"ssl_certificate", OldCert>>, <<"ssl_certificate_key", OldKey>> >>,
      \* plaintext wildcard server that already names a certificate
      << <<"listen", "80">>, <<"server_name", "*.a.example.com">>,
         <<"ssl_certificate", OldCert>> >>,
      \* server made SSL by a block-level directive
      << <<"listen", "443">>, <<"ssl", "on">>, <<"server_name", "new.org">>,
         <<"ssl_certificate", OldCert>>, <<"ssl_certificate_key", OldKey>> >> }

\* the configurations a session may start from: one or two server blocks
InitConfigs ==
    {<<b>> : b \in BlockMenu} \cup {<<b, c>> : b \in BlockMenu, c \in BlockMenu}

\* no challenge was performed yet
ChallIdle ==
    /\ chall_out = 0
    /\ performed = 0
    /\ cleaned = 0

RankIdle ==
    /\ vhost_list = <<>>
    /\ target_name = ""
    /\ matches = <<>>
    /\ best = NoVhost
    /\ pc = "idle"

\* The record of a call: what was asked, the outcome, and what held when the
\* call was made: whether a vhost name matched the target and the SSL status
\* of the vhost selected, the default-flagged vhosts, the cached host,
\* whether its block is SSL and whether it is in the saved files with all its
\* names, and whether the call changed the tree.
Call(op, target, create, r, tree, cached, files) ==
    LET vhosts == GetVhosts(tree)
        found == SelectBestNameMatch(RankMatchesByNameAndSsl(vhosts, target))
        defaults == {i \in 1..Len(tree) : \E a \in vhosts[i].addrs : a.default}
    IN  [op |-> op, target |-> target, create |-> create,
         ok |-> r.ok, error |-> r.error, vhost |-> r.vhost,
         synthesized |-> r.synthesized, duplicated |-> r.duplicated,
         made_ssl |-> r.made_ssl,
         matched |-> op = "choose_vhost" /\ found # NoVhost,
         matched_ssl |-> op = "choose_vhost" /\ found.ssl,
         defaults |-> defaults,
         default_addrs |-> UNION {vhosts[i].addrs : i \in defaults},
         pre_new_vhost |-> cached,
         cached_ssl |-> cached # NoVhost /\ VhostAt(tree, cached.path).ssl,
         cached_saved |-> /\ cached # NoVhost
                          /\ cached.path <= Len(files)
                          /\ ParseServer(files[cached.path]).names = cached.names,
         tree_changed |-> r.tree # tree]

NoResult(tree) ==
    [ok |-> TRUE, error |-> "", vhost |-> NoVhost, synthesized |-> FALSE,
     duplicated |-> FALSE, made_ssl |-> FALSE, tree |-> tree]

\* __init__ and prepare: the tree is parsed from the files, nothing cached
Init ==
    /\ parsed \in InitConfigs
    /\ disk = parsed
    /\ new_vhost = NoVhost
    /\ save_notes = <<>>
    /\ backups = NoBackups
    /\ last = Call("init", "", FALSE, NoResult(parsed), parsed, NoVhost, parsed)
    /\ dup_count = 0
    /\ saves = 0
    /\ snakeoil = 0
    /\ version = MinStaplingVersion
    /\ calls = 0
    /\ port_type = "int"
    /\ ChallIdle
    /\ RankIdle

WithinBounds(tree) ==
    /\ Len(tree) <= MaxBlocks
    /\ \A i \in 1..Len(tree) : Len(tree[i]) <= MaxBlockLen

\* choose_vhost(target_name, create_if_no_match)
ChooseVhostCall ==
    \E target \in Targets, create \in BOOLEAN :
        \E r \in {ChooseVhost(parsed, new_vhost, target, create, snakeoil)} :
            /\ WithinBounds(r.tree)
            /\ r.made_ssl => snakeoil < MaxSnakeoil
            /\ snakeoil' = snakeoil + (IF r.made_ssl THEN 1 ELSE 0)
            /\ parsed' = r.tree
            /\ new_vhost' = r.new_vhost
            /\ dup_count' = dup_count + (IF r.duplicated THEN 1 ELSE 0)
            /\ last' = Call("choose_vhost", target, create, r, parsed, new_vhost,
                            disk)
            /\ UNCHANGED <<save_notes, disk, backups, saves, version, calls>>
            /\ UNCHANGED <<port_type, chall_out, performed, cleaned>>
            /\ UNCHANGED rankVars

\* save clears the cached host
NewVhostAfterSaveMutClear(cached) == NoVhost

\* save() leaves self.new_vhost alone
NewVhostAfterSave(cached) == cached

\* save(title, temporary)
Save ==
    \E title \in BOOLEAN, temporary \in BOOLEAN :
        LET staged == AddToCheckpoint(backups, disk, temporary)
            finalize == title /\ ~temporary
        IN  /\ saves < MaxSaves
            /\ saves' = saves + 1
            /\ backups' = IF finalize THEN FinalizeCheckpoint(staged) ELSE staged
            /\ save_notes' = <<>>
            /\ disk' = parsed
            /\ new_vhost' = NewVhostAfterSave(new_vhost)
            /\ last' = Call("save", "", FALSE, NoResult(parsed), parsed, new_vhost,
                            disk)
            /\ UNCHANGED <<parsed, dup_count, snakeoil, version, calls>>
            /\ UNCHANGED <<port_type, chall_out, performed, cleaned>>
            /\ UNCHANGED rankVars

\* the cached host outlives a revert
NewVhostAfterRevertMutKeep(cached) == cached

\* "self.new_vhost = None" after the reverter has run
NewVhostAfterRevert(cached) == NoVhost

\* recovery_routine(): the reverter's recovery, then the cached host is
\* cleared and the tree is loaded from the files again
RecoveryRoutine ==
    \E r \in {RevertUncommitted(backups, disk)} :
        /\ disk' = r.files
        /\ backups' = r.backups
        /\ new_vhost' = NewVhostAfterRevert(new_vhost)
        /\ parsed' = r.files
        /\ dup_count' = 0
        /\ last' = Call("recovery_routine", "", FALSE, NoResult(r.files),
                        parsed, new_vhost, disk)
        /\ UNCHANGED <<save_notes, saves, snakeoil, version, calls>>
        /\ UNCHANGED <<port_type, chall_out, performed, cleaned>>
        /\ UNCHANGED rankVars

\* revert_challenge_config(): the temporary checkpoint is reverted, then the
\* cached host is cleared and the tree is loaded again
RevertChallengeConfig ==
    \E r \in {RevertTemporaryConfig(backups, disk)} :
        /\ disk' = r.files
        /\ backups' = r.backups
        /\ new_vhost' = NewVhostAfterRevert(new_vhost)
        /\ parsed' = r.files
        /\ dup_count' = 0
        /\ last' = Call("revert_challenge_config", "", FALSE, NoResult(r.files),
                        parsed, new_vhost, disk)
        /\ UNCHANGED <<save_notes, saves, snakeoil, version, calls>>
        /\ UNCHANGED <<port_type, chall_out, performed, cleaned>>
        /\ UNCHANGED rankVars

\* rollback_checkpoints(rollback): permanent checkpoints are reverted, then
\* the cached host is cleared and the tree is loaded again
RollbackCheckpoints ==
    \E rollback \in 1..MaxSaves :
        \E r \in {RevertCheckpoints(backups, disk, rollback)} :
            /\ disk' = r.files
            /\ backups' = r.backups
            /\ new_vhost' = NewVhostAfterRevert(new_vhost)
            /\ parsed' = r.files
            /\ dup_count' = 0
            /\ last' = Call("rollback_checkpoints", "", FALSE, NoResult(r.files),
                            parsed, new_vhost, disk)
            /\ UNCHANGED <<save_notes, saves, snakeoil, version, calls>>
            /\ UNCHANGED <<port_type, chall_out, performed, cleaned>>
            /\ UNCHANGED rankVars

Next ==
    \/ ChooseVhostCall
    \/ Save
    \/ RecoveryRoutine
    \/ RevertChallengeConfig
    \/ RollbackCheckpoints

Spec == Init /\ [][Next]_vars

-----------------------------------------------------------------------------
(* Properties of choose_vhost and of the cached synthetic host (checked    *)
(* under Spec).  `last` describes the call that led to the current state.  *)

ChoseVhost == last.op = "choose_vhost"

\* a call for a domain that matches no vhost, with creation allowed
Unmatched == ChoseVhost /\ last.create /\ ~last.matched

\* the SSL status, before the call, of the host the call selected
SelectedWasSsl ==
    IF last.matched THEN last.matched_ssl
    ELSE IF last.duplicated THEN \E a \in last.default_addrs : a.ssl
    ELSE last.cached_ssl

\* the addresses of the default vhost with the default flag removed
MirroredAddrs == {[a EXCEPT !.default = FALSE] : a \in last.default_addrs}

ServerNameDirectives(block) == {i \in 1..Len(block) : IsServerName(block[i])}

\* C1: a host returned by choose_vhost is SSL, as an object and in the
\* tree; TLS enablement was applied exactly when the selected host was not
\* SSL before the call.
C1_ReturnedHostIsSsl ==
    (ChoseVhost /\ last.ok) =>
        /\ last.vhost.ssl
        /\ VhostAt(parsed, last.vhost.path).ssl
        /\ last.made_ssl = ~SelectedWasSsl

\* a synthesized host that was plaintext and has been made SSL
C1_Witness ==
    /\ ChoseVhost /\ last.ok
    /\ last.synthesized /\ last.duplicated
    /\ ~SelectedWasSsl
    /\ last.made_ssl
    /\ last.vhost.ssl

\* C6: with creation disallowed and no matching name, choose_vhost fails
\* with the error that asks for a server_name directive, and synthesizes
\* nothing, enables TLS nowhere and leaves the tree and the cached host as
\* they were.
C6_NoMatchNoCreateFails ==
    (ChoseVhost /\ ~last.create /\ ~last.matched) =>
        /\ ~last.ok
        /\ last.error = ErrNoMatch
        /\ ~last.synthesized /\ ~last.duplicated /\ ~last.made_ssl
        /\ ~last.tree_changed
        /\ new_vhost = last.pre_new_vhost

\* the failure with a synthetic host cached: the cache is kept
C6_Witness ==
    /\ ChoseVhost /\ ~last.create /\ ~last.matched
    /\ ~last.ok
    /\ last.pre_new_vhost # NoVhost
    /\ new_vhost = last.pre_new_vhost
    /\ last.target \notin new_vhost.names

\* C7: the default block is duplicated only when exactly one vhost is
\* default-flagged; with nothing cached, no match and zero or several
\* default vhosts, choose_vhost fails, duplicates nothing and leaves the
\* cached host unset.
C7_SynthesisNeedsUniqueDefault ==
    /\ (ChoseVhost /\ last.duplicated) => Cardinality(last.defaults) = 1
    /\ (Unmatched /\ last.pre_new_vhost = NoVhost
            /\ Cardinality(last.defaults) # 1) =>
          /\ ~last.ok
          /\ last.error = ErrNoDefault
          /\ ~last.duplicated
          /\ ~last.tree_changed
          /\ new_vhost = NoVhost

\* two default-flagged vhosts: no guess is made
C7_Witness ==
    /\ Unmatched /\ last.pre_new_vhost = NoVhost
    /\ Cardinality(last.defaults) = 2
    /\ ~last.ok
    /\ Len(parsed) = 2

C9_SyntheticHostReused ==
    /\ dup_count <= 1
    /\ (Unmatched /\ last.pre_new_vhost # NoVhost) =>
          /\ ~last.duplicated
          /\ new_vhost.path = last.pre_new_vhost.path
          /\ new_vhost.names = last.pre_new_vhost.names \cup {last.target}
          /\ last.ok => last.vhost = new_vhost
    /\ new_vhost # NoVhost =>
          /\ Cardinality(ServerNameDirectives(parsed[new_vhost.path])) = 1
          /\ ParseServer(parsed[new_vhost.path]).names = new_vhost.names

\* the second unmatched domain has been added to the host made for the first
C9_Witness ==
    /\ Unmatched /\ last.ok
    /\ last.pre_new_vhost # NoVhost
    /\ ~last.duplicated
    /\ dup_count = 1
    /\ Cardinality(new_vhost.names) = 2
    /\ last.vhost.path = last.pre_new_vhost.path

-----------------------------------------------------------------------------
(* Specification of the ranking pipeline on arbitrary vhost lists.         *)

NameSets ==
    { {"x.a.example.com"}, {"*.a.example.com"}, {"*.example.com", "x.*"},
      {"x.a.*"}, {"x.*"}, {"~^x"}, {"~.*com$"}, {"new.org", "_"} }

\* a vhost list as get_vhosts() returns it: vhost i is the i-th server block
VhostListOf(f) ==
    [i \in DOMAIN f |-> [path |-> i, names |-> f[i].names, ssl |-> f[i].ssl,
                         addrs |-> {}]]

EngineIdle ==
    /\ parsed = <<>>
    /\ new_vhost = NoVhost
    /\ save_notes = <<>>
    /\ disk = <<>>
    /\ backups = NoBackups
    /\ last = [op |-> "none"]
    /\ dup_count = 0
    /\ saves = 0
    /\ snakeoil = 0
    /\ version = MinStaplingVersion
    /\ calls = 0
    /\ port_type = "int"
    /\ ChallIdle

InitRank ==
    /\ EngineIdle
    /\ \E n \in 0..MaxVhosts :
          \E f \in [1..n -> [names : NameSets, ssl : BOOLEAN]] :
              vhost_list = VhostListOf(f)
    /\ target_name \in Targets
    /\ matches = <<>>
    /\ best = NoVhost
    /\ pc = "input"

RankStep ==
    /\ pc = "input"
    /\ matches' = RankMatchesByNameAndSsl(vhost_list, target_name)
    /\ pc' = "ranked"
    /\ UNCHANGED <<vhost_list, target_name, best>>
    /\ UNCHANGED engineVars

SelectStep ==
    /\ pc = "ranked"
    /\ best' = SelectBestNameMatch(matches)
    /\ pc' = "selected"
    /\ UNCHANGED <<vhost_list, target_name, matches>>
    /\ UNCHANGED engineVars

NextRank == RankStep \/ SelectStep

SpecRank == InitRank /\ [][NextRank]_vars

-----------------------------------------------------------------------------
(* Properties of the ranking pipeline (checked under SpecRank).            *)

\* The match kind of a name set as the specification words it:
\* 0 exact, 1 wildcard_start, 2 wildcard_end, 3 regex, -1 no match.
KindOfNames(target, names) ==
    IF \E n \in names : n = target THEN 0
    ELSE IF \E n \in names : WildcardMatch(target, n, TRUE) THEN 1
    ELSE IF \E n \in names : WildcardMatch(target, n, FALSE) THEN 2
    ELSE IF \E n \in names : RegexMatch(target, n) THEN 3
    ELSE -1

InputKind(i) == KindOfNames(target_name, vhost_list[i].names)
InputRank(i) == 2 * InputKind(i) + (IF vhost_list[i].ssl THEN 0 ELSE 1)
Matching == {i \in 1..Len(vhost_list) : InputKind(i) >= 0}

\* the length of the longest name of vhost i that matches as `*.suffix`
WildcardStartLen(i) ==
    LET S == {n \in vhost_list[i].names : WildcardMatch(target_name, n, TRUE)}
    IN  StrLen(CHOOSE n \in S : \A m \in S : StrLen(n) >= StrLen(m))

WildcardStartMatching == {i \in Matching : InputKind(i) = 1}
NoExactMatch == \A i \in Matching : InputKind(i) # 0

\* C2: the ranked list holds exactly one entry per vhost with a matching
\* name and none for any other vhost, each entry's rank is
\* 2*kind + (0 if ssl else 1), and the ranks are in non-decreasing order.
C2_RankedListContract ==
    pc # "input" =>
        /\ \A i \in 1..Len(vhost_list) :
              Cardinality({j \in 1..Len(matches) : matches[j].vhost = vhost_list[i]})
                  = IF i \in Matching THEN 1 ELSE 0
        /\ \A j \in 1..Len(matches) :
              \E i \in Matching :
                  /\ matches[j].vhost = vhost_list[i]
                  /\ matches[j].rank = InputRank(i)
        /\ \A j, k \in 1..Len(matches) :
              j < k => matches[j].rank <= matches[k].rank

\* a ranked list with a discarded vhost and entries of three kinds, in an
\* order other than the order of appearance
C2_Witness ==
    /\ pc = "ranked"
    /\ Len(matches) = 2
    /\ Len(vhost_list) = 3
    /\ matches[1].rank = 4
    /\ matches[2].rank = 7
    /\ matches[1].vhost.path > matches[2].vhost.path

\* C3 as claimed: with no exact match and several vhosts matching by a
\* wildcard_start name, the selected vhost is one whose matched wildcard
\* name is longest among all of them, whatever their SSL status.
C3_LongestWildcardAnySsl ==
    (pc = "selected" /\ NoExactMatch
        /\ Cardinality(WildcardStartMatching) >= 2) =>
        \E i \in WildcardStartMatching :
            /\ best = vhost_list[i]
            /\ \A j \in WildcardStartMatching :
                  WildcardStartLen(i) >= WildcardStartLen(j)

\* C3 as amended: the selected vhost is SSL if any of the wildcard_start
\* vhosts is SSL, and its matched wildcard name is longest among the
\* wildcard_start vhosts of that same SSL status.
C3_LongestWildcardSameSsl ==
    (pc = "selected" /\ NoExactMatch
        /\ Cardinality(WildcardStartMatching) >= 2) =>
        \E i \in WildcardStartMatching :
            /\ best = vhost_list[i]
            /\ vhost_list[i].ssl = (\E j \in WildcardStartMatching : vhost_list[j].ssl)
            /\ \A j \in WildcardStartMatching :
                  vhost_list[j].ssl = vhost_list[i].ssl =>
                      WildcardStartLen(i) >= WildcardStartLen(j)

\* two plaintext wildcard_start vhosts, the longer name second, and an SSL
\* one: the longer plaintext one loses to the SSL one
C3_Witness ==
    /\ pc = "selected"
    /\ NoExactMatch
    /\ Cardinality(WildcardStartMatching) >= 2
    /\ \E i, j \in WildcardStartMatching :
          /\ vhost_list[i].ssl /\ ~vhost_list[j].ssl
          /\ WildcardStartLen(j) > WildcardStartLen(i)
          /\ best = vhost_list[i]

\* C4: select_best returns none on an empty list; when the first entry's
\* rank is in 2..5 it returns the first entry, in list order, among those of
\* the top rank whose matched name has maximal length.
C4_SelectWildcard ==
    pc = "selected" =>
        /\ matches = <<>> => best = NoVhost
        /\ (matches # <<>> /\ matches[1].rank \in 2..5) =>
              \E i \in 1..Len(matches) :
                  /\ best = matches[i].vhost
                  /\ matches[i].rank = matches[1].rank
                  /\ \A j \in 1..Len(matches) :
                        matches[j].rank = matches[1].rank =>
                            /\ StrLen(matches[j].name) <= StrLen(matches[i].name)
                            /\ j < i => StrLen(matches[j].name) < StrLen(matches[i].name)

\* a shorter name first, then two entries of the same top rank and the same
\* maximal length: the earlier of the two is returned
C4_Witness ==
    /\ pc = "selected"
    /\ Len(matches) = 3
    /\ matches[1].rank \in 2..5
    /\ matches[3].rank = matches[1].rank
    /\ StrLen(matches[1].name) < StrLen(matches[2].name)
    /\ StrLen(matches[2].name) = StrLen(matches[3].name)
    /\ best = matches[2].vhost

\* C5: when the best match kind is exact or regex, the selected vhost is
\* the first one, in the order of the vhost list, among those of the top
\* rank; name lengths play no part.
C5_ExactRegexFirstSeen ==
    (pc = "selected" /\ Matching # {}) =>
        LET top == CHOOSE r \in {InputRank(i) : i \in Matching} :
                      \A i \in Matching : r <= InputRank(i)
            first == CHOOSE i \in Matching :
                      /\ InputRank(i) = top
                      /\ \A j \in Matching : InputRank(j) = top => i <= j
        IN  top \in {0, 1, 6, 7} => best = vhost_list[first]

\* two regex vhosts of the same rank, the one with the longer name second:
\* the first is selected
C5_Witness ==
    /\ pc = "selected"
    /\ Len(matches) >= 2
    /\ matches[1].rank \in {6, 7}
    /\ matches[2].rank = matches[1].rank
    /\ StrLen(matches[2].name) > StrLen(matches[1].name)
    /\ matches[1].vhost.path < matches[2].vhost.path
    /\ best = matches[1].vhost

-----------------------------------------------------------------------------
(* The installer session: deploy_cert, enhance and choose_redirect_vhost   *)
(* on configurations with plaintext, SSL and mixed server blocks.          *)

\* most notes save_notes may hold
MaxNotes == 7
\* most installer calls of a session
MaxCalls == 2

ForeignRedirect == <<"return", "301", "http://other.example.com">>

\* the server blocks the installer's configurations are made of
InstallBlockMenu ==
    { \* plaintext default server
      << <<"listen", "80", "default_server">>, <<"server_name", "_">> >>,
      \* plaintext server
      << <<"listen", "80">>, <<"server_name", "x.a.example.com">> >>,
      \* plaintext server with the longer wildcard
      << <<"listen", "80">>, <<"server_name", "*.a.example.com">> >>,
      \* server on port 80 and, with SSL, on port 443
      << <<"listen", "80">>, <<"listen", "443", "ssl">>,
         <<"server_name", "*.example.com">>,
         <<"ssl_certificate", OldCert>>, <<"ssl_certificate_key", OldKey>> >>,
      \* plaintext server that redirects already
      << <<"listen", "80">>, <<"server_name", "x.a.example.com">>,
         ForeignRedirect >>,
      \* server without a listen directive, SSL by a block-level directive
      << <<"ssl", "on">>, <<"server_name", "x.a.example.com">>,
         <<"ssl_certificate", OldCert>>, <<"ssl_certificate_key", OldKey>> >>,
      \* plaintext server on an address without a port
      << <<"listen", "127.0.0.1">>, <<"server_name", "new.org">> >>,
      \* SSL server
      << <<"listen", "443", "ssl">>, <<"server_name", "new.org">>,
         <<"ssl_certificate", OldCert>>, <<"ssl_certificate_key", OldKey>> >>,
      \* plaintext server without a listen directive
      << <<"server_name", "new.org">> >> }

InstallConfigs ==
    {<<b>> : b \in InstallBlockMenu}
        \cup {<<b, c>> : b \in InstallBlockMenu, c \in InstallBlockMenu}

\* the versions of nginx a session may run against
Versions == {<<1, 3, 6>>, <<1, 3, 7>>}

\* the certificates deploy_cert is called with: cert, key, fullchain
Certificates ==
    { [cert |-> "cert1.pem", key |-> "key1.pem", fullchain |-> "fullchain1.pem"],
      [cert |-> "cert2.pem", key |-> "key2.pem", fullchain |-> "fullchain2.pem"],
      [cert |-> "cert1.pem", key |-> "key1.pem", fullchain |-> NoPath],
      [cert |-> "cert1.pem", key |-> "key1.pem", fullchain |-> ""] }

\* the enhancement kinds asked for, and the options passed
Enhancements == {"redirect", "staple-ocsp", "ensure-http-header"}
ChainPaths == {NoPath, "chain.pem"}

\* The record of an installer call: what was asked, the result, the tree,
\* cached host and save notes before the call, and whether the call before
\* it asked for the same and raised no error.
InstallCall(op, domain, args, r, tree, cached, notes) ==
    [op |-> op, domain |-> domain, args |-> args,
     ok |-> r.ok, error |-> r.error, vhost |-> r.vhost,
     made_ssl |-> r.made_ssl, handler |-> r.handler, redirect |-> r.redirect,
     before |-> tree, pre_new_vhost |-> cached, pre_notes |-> notes,
     again |-> /\ last.op = op
               /\ last.domain = domain
               /\ last.args = args
               /\ last.ok]

\* __init__ and prepare
InitInstall ==
    /\ parsed \in InstallConfigs
    /\ disk = parsed
    /\ new_vhost = NoVhost
    /\ save_notes = <<>>
    /\ backups = NoBackups
    /\ last = [op |-> "init"]
    /\ dup_count = 0
    /\ saves = 0
    /\ snakeoil = 0
    /\ version \in Versions
    /\ calls = 0
    \* no block of these sessions has an IPv6 address: the type of the port
    \* plays no part
    /\ port_type = "int"
    /\ ChallIdle
    /\ RankIdle

\* what every installer call leaves alone
InstallFrame ==
    /\ calls < MaxCalls
    /\ calls' = calls + 1
    /\ UNCHANGED <<disk, backups, dup_count, saves, version>>
    /\ UNCHANGED <<port_type, chall_out, performed, cleaned>>
    /\ UNCHANGED rankVars

\* the state after an installer call with result r
InstallResult(r) ==
    /\ WithinBounds(r.tree)
    /\ Len(r.save_notes) <= MaxNotes
    /\ r.made_ssl => snakeoil < MaxSnakeoil
    /\ parsed' = r.tree
    /\ new_vhost' = r.new_vhost
    /\ save_notes' = r.save_notes
    /\ snakeoil' = snakeoil + (IF r.made_ssl THEN 1 ELSE 0)

\* deploy_cert(domain, cert_path, key_path, chain_path, fullchain_path)
DeployCertCall ==
    \E domain \in Targets, c \in Certificates :
        \E r \in {DeployCert(parsed, new_vhost, save_notes, domain, c.cert,
                             c.key, c.fullchain, snakeoil)} :
            /\ InstallResult(r)
            /\ last' = InstallCall("deploy_cert", domain, c, r, parsed,
                                   new_vhost, save_notes)
            /\ InstallFrame

\* enhance(domain, enhancement, options)
EnhanceCall ==
    \E domain \in Targets, enhancement \in Enhancements, options \in ChainPaths :
        \E r \in {Enhance(parsed, new_vhost, save_notes, domain, enhancement,
                          options, version, snakeoil)} :
            /\ InstallResult(r)
            /\ last' = InstallCall("enhance", domain,
                                   [enhancement |-> enhancement,
                                    options |-> options],
                                   r, parsed, new_vhost, save_notes)
            /\ InstallFrame

\* choose_redirect_vhost(target_name, port)
ChooseRedirectVhostCall ==
    \E domain \in Targets, port \in {"80", "443"} :
        /\ last' = [op |-> "choose_redirect_vhost", domain |-> domain,
                    port |-> port,
                    vhost |-> ChooseRedirectVhost(parsed, domain, port)]
        /\ UNCHANGED <<parsed, new_vhost, save_notes, snakeoil>>
        /\ InstallFrame

\* sessions that deploy certificates
NextInstall ==
    \/ DeployCertCall
    \/ ChooseRedirectVhostCall

SpecInstall == InitInstall /\ [][NextInstall]_vars

\* sessions that ask for enhancements
NextEnhance == EnhanceCall

SpecEnhance == InitInstall /\ [][NextEnhance]_vars

-----------------------------------------------------------------------------
(* The mutation operations applied directly to a vhost of the tree.        *)

\* The record of a mutation: the operation, the vhost it was applied to,
\* whether it raised no error, the tree before it, and whether the call
\* before it was the same operation on the same vhost and raised no error.
Mutation(op, path, active, ok, tree) ==
    [op |-> op, path |-> path, active |-> active, ok |-> ok, before |-> tree,
     again |-> /\ last.op = op
               /\ last.path = path
               /\ last.active = active
               /\ last.ok]

\* further server blocks the mutations are applied to
MutateBlockMenu ==
    { \* plaintext server on IPv6 only
      << <<"listen", "[::]:80">>, <<"server_name", "x.a.example.com">> >>,
      \* SSL server on IPv6 that sets ipv6only on the TLS port
      << <<"listen", "[::]:443", "ssl", "ipv6only=on">>,
         <<"server_name", "new.org">>,
         <<"ssl_certificate", OldCert>>, <<"ssl_certificate_key", OldKey>> >>,
      \* plaintext server on IPv4 and IPv6
      << <<"listen", "80">>, <<"listen", "[::]:80">>,
         <<"server_name", "*.a.example.com">> >>,
      \* plaintext server without a listen directive that already names a
      \* certificate
      << <<"server_name", "new.org">>, <<"ssl_certificate", OldCert>> >> }

MutateConfigs ==
    InstallConfigs
        \cup {<<b>> : b \in MutateBlockMenu}
        \cup {<<b, c>> : b \in MutateBlockMenu, c \in MutateBlockMenu}

InitMutate ==
    /\ parsed \in MutateConfigs
    /\ disk = parsed
    /\ new_vhost = NoVhost
    /\ save_notes = <<>>
    /\ backups = NoBackups
    /\ last = [op |-> "init", path |-> 0, active |-> FALSE, ok |-> FALSE]
    /\ dup_count = 0
    /\ saves = 0
    /\ snakeoil = 0
    /\ version = MinStaplingVersion
    /\ calls = 0
    /\ port_type \in PortTypes
    /\ ChallIdle
    /\ RankIdle

MutateFrame ==
    /\ calls < MaxCalls
    /\ calls' = calls + 1
    /\ UNCHANGED <<new_vhost, save_notes, disk, backups, dup_count, saves,
                   version>>
    /\ UNCHANGED <<port_type, chall_out, performed, cleaned>>
    /\ UNCHANGED rankVars

\* _make_server_ssl(vhost): a self-signed certificate is written by every
\* call
MakeServerSslCall ==
    \E path \in 1..Len(parsed) :
        \E r \in {MakeServerSsl(parsed, VhostAt(parsed, path), snakeoil)} :
            /\ WithinBounds(r.tree)
            /\ snakeoil < MaxSnakeoil
            /\ parsed' = r.tree
            /\ snakeoil' = snakeoil + 1
            /\ last' = Mutation("_make_server_ssl", path, TRUE, r.ok, parsed)
            /\ MutateFrame

\* _add_redirect_block(vhost, active)
AddRedirectBlockCall ==
    \E path \in 1..Len(parsed), active \in BOOLEAN :
        \E r \in {AddRedirectBlock(parsed, VhostAt(parsed, path), active)} :
            /\ WithinBounds(r.tree)
            /\ parsed' = r.tree
            /\ last' = Mutation("_add_redirect_block", path, active, r.ok,
                                parsed)
            /\ UNCHANGED snakeoil
            /\ MutateFrame

NextMutate ==
    \/ MakeServerSslCall
    \/ AddRedirectBlockCall

SpecMutate == InitMutate /\ [][NextMutate]_vars

-----------------------------------------------------------------------------
(* Properties of the installer, the enhancements and the mutations.        *)

\* the vhost has a non-SSL listen address on the port (an address without a
\* port counts as port 80), or no listen address at all when the port is 80
ListensPlainOn(vhost, port) ==
    \/ \E addr \in vhost.addrs :
          /\ ~addr.ssl
          /\ \/ addr.port = port
             \/ addr.port = "" /\ port = "80"
    \/ vhost.addrs = {} /\ port = "80"

\* the vhosts of the tree that listen in plaintext on the port and have no
\* block-level `ssl on`, in file order
PlaintextVhosts(tree, port) ==
    SelectSeq(GetVhosts(tree),
              LAMBDA vhost : /\ ListensPlainOn(vhost, port)
                             /\ <<"ssl", "on">> \notin DirectivesOf(tree[vhost.path]))

\* C11: choose_redirect_vhost returns none or a vhost that (a) has a
\* non-SSL listen address on the port, a missing port counting as 80, or no
\* listen address at all when the port is 80, and (b) has no block-level
\* `ssl on`; the result is what select_best picks from the ranking of the
\* vhosts that pass.
C11_RedirectVhostIsBestPlaintext ==
    last.op = "choose_redirect_vhost" =>
        /\ last.vhost = SelectBestNameMatch(
               RankMatchesByNameAndSsl(PlaintextVhosts(parsed, last.port),
                                       last.domain))
        /\ last.vhost # NoVhost =>
               /\ ListensPlainOn(last.vhost, last.port)
               /\ <<"ssl", "on">> \notin DirectivesOf(parsed[last.vhost.path])

\* a vhost is returned although a block without listen directive that
\* names the domain is left out for its `ssl on`
C11_Witness ==
    /\ last.op = "choose_redirect_vhost"
    /\ last.port = "80"
    /\ last.vhost # NoVhost
    /\ \E i \in 1..Len(parsed) :
          /\ <<"ssl", "on">> \in DirectivesOf(parsed[i])
          /\ VhostAt(parsed, i).addrs = {}
          /\ last.domain \in VhostAt(parsed, i).names

\* how often a directive, or a directive of a key, stands in a block
CountDirective(block, directive) ==
    Cardinality({i \in 1..Len(block) : block[i] = directive})

CountKey(block, key) ==
    Cardinality({i \in 1..Len(block) : block[i] # <<>> /\ block[i][1] = key})

\* the listen directives of a block that carry the ssl flag
SslListens(block) ==
    {d \in DirectivesOf(block) : IsListen(d) /\ SslMatchFunc(d)}

\* C12: after _make_server_ssl was applied twice to the same vhost the block
\* holds at most one set of SSL listen directives (no SSL listen directive
\* twice) and one set of certificate directives, and the second application
\* added no further directive.
C12_MakeServerSslTwiceAddsOnce ==
    (last.op = "_make_server_ssl" /\ last.again) =>
        /\ \A d \in SslListens(parsed[last.path]) :
              CountDirective(parsed[last.path], d) <= 1
        /\ CountKey(parsed[last.path], "ssl_certificate") <= 1
        /\ CountKey(parsed[last.path], "ssl_certificate_key") <= 1
        /\ parsed = last.before

\* C13: after _add_redirect_block(vhost, True) was applied twice to the same
\* vhost the block holds exactly one redirect directive, Certbot's.
C13_RedirectBlockTwiceLeavesOne ==
    (last.op = "_add_redirect_block" /\ last.active /\ last.again /\ last.ok) =>
        /\ CountKey(parsed[last.path], "return") = 1
        /\ CountDirective(parsed[last.path], RedirectBlock[1]) = 1

\* the second of two applications with active = True, the redirect was not
\* there before the first
C13_Witness ==
    /\ last.op = "_add_redirect_block"
    /\ last.active
    /\ last.again
    /\ last.ok
    /\ parsed = last.before
    /\ CountKey(disk[last.path], "return") = 0

\* the call was enhance(domain, "redirect", ...)
RedirectAsked ==
    /\ last.op = "enhance"
    /\ last.args.enhancement = "redirect"

\* how often Certbot's comment block stands in a block
CountCommentBlock(block) ==
    Cardinality({i \in 1..Len(block) - 1 :
                    /\ block[i] = RedirectCommentBlock[1]
                    /\ block[i + 1] = RedirectCommentBlock[2]})

\* C14: for consecutive redirect enhancement calls for the same domain the
\* block the redirect is for holds at most one active and at most one
\* commented Certbot redirect block, and every call after the first adds no
\* directive.
C14_RedirectCallsAddOnce ==
    (RedirectAsked /\ last.again) =>
        /\ parsed = last.before
        /\ last.redirect.target # 0 =>
              /\ CountDirective(parsed[last.redirect.target],
                                RedirectBlock[1]) <= 1
              /\ CountCommentBlock(parsed[last.redirect.target]) <= 1

\* the block the redirect is decided for, as it is before the decision: the
\* selected block, or after a split its plaintext listen directives and its
\* server names
RedirectPreBlock ==
    IF last.redirect.split
    THEN SelectSeq(last.before[last.redirect.selected],
                   LAMBDA d : \/ IsServerName(d)
                              \/ IsListen(d) /\ NoSslMatchFunc(d))
    ELSE last.before[last.redirect.target]

Redirects(block) ==
    \E d \in DirectivesOf(block) : d # <<>> /\ d[1] \in {"return", "rewrite"}

C16_SslVhostIsSplit ==
    (RedirectAsked /\ last.redirect.selected # 0
        /\ VhostAt(last.before, last.redirect.selected).ssl) =>
        LET old  == last.redirect.selected
            new  == last.redirect.target
            orig == last.before[old]
        IN  /\ last.redirect.split
            /\ Len(parsed) = Len(last.before) + 1
            /\ new = Len(parsed)
            /\ \A i \in 1..Len(last.before) : i # old => parsed[i] = last.before[i]
            \* the new block: plaintext listens, server names, the redirect
            /\ \A d \in DirectivesOf(parsed[new]) :
                  \/ IsListen(d) /\ "ssl" \notin {d[i] : i \in 1..Len(d)}
                  \/ IsServerName(d)
                  \/ d = RedirectBlock[1]
            /\ {d \in DirectivesOf(parsed[new]) : IsListen(d)}
                   = {d \in DirectivesOf(orig) :
                         IsListen(d) /\ "ssl" \notin {d[i] : i \in 1..Len(d)}}
            /\ {d \in DirectivesOf(parsed[new]) : IsServerName(d)}
                   = {d \in DirectivesOf(orig) : IsServerName(d)}
            /\ CountDirective(parsed[new], RedirectBlock[1]) = 1
            \* the original block: its other directives, none added
            /\ parsed[old] = SelectSeq(orig,
                   LAMBDA d : ~(IsListen(d)
                                /\ "ssl" \notin {d[i] : i \in 1..Len(d)}))
            /\ \A d \in DirectivesOf(parsed[old]) :
                  IsListen(d) => "ssl" \in {d[i] : i \in 1..Len(d)}

\* a block that listens on port 80 and, with SSL, on port 443 was selected
C16_Witness ==
    /\ RedirectAsked
    /\ last.redirect.selected # 0
    /\ last.redirect.split
    /\ <<"listen", "80">> \in DirectivesOf(last.before[last.redirect.selected])
    /\ <<"listen", "443", "ssl">>
           \in DirectivesOf(last.before[last.redirect.selected])
    /\ last.redirect.target # last.redirect.selected

\* the call was deploy_cert and raised no error
Deployed ==
    /\ last.op = "deploy_cert"
    /\ last.ok

\* C17: after every deploy_cert that raises no error, the first or a
\* repeated one, the block of the chosen vhost holds exactly one
\* ssl_certificate directive and exactly one ssl_certificate_key directive,
\* with the fullchain path and the key path of this most recent call.
C17_DeployCertLeavesOnePair ==
    Deployed =>
        LET block == parsed[last.vhost.path]
        IN  /\ CountKey(block, "ssl_certificate") = 1
            /\ CountKey(block, "ssl_certificate_key") = 1
            /\ <<"ssl_certificate", last.args.fullchain>> \in DirectivesOf(block)
            /\ <<"ssl_certificate_key", last.args.key>> \in DirectivesOf(block)

\* a second deployment to the same vhost, with another certificate
C17_Witness ==
    /\ Deployed
    /\ last.args.fullchain = "fullchain2.pem"
    /\ last.vhost.path <= Len(last.before)
    /\ <<"ssl_certificate", "fullchain1.pem">>
           \in DirectivesOf(last.before[last.vhost.path])
    /\ <<"ssl_certificate_key", "key1.pem">>
           \in DirectivesOf(last.before[last.vhost.path])

\* C18: deploy_cert without a fullchain path (absent, or the empty string)
\* fails with a plugin error before it does anything: the tree, the cached
\* host and the save notes are as they were.
C18_NoFullchainChangesNothing ==
    (last.op = "deploy_cert" /\ last.args.fullchain \in {NoPath, ""}) =>
        /\ ~last.ok
        /\ last.error = ErrNoFullchain
        /\ parsed = last.before
        /\ new_vhost = last.pre_new_vhost
        /\ save_notes = last.pre_notes

\* the call names a domain of a plaintext vhost, which a deployment would
\* have made SSL
C18_Witness ==
    /\ last.op = "deploy_cert"
    /\ last.args.fullchain = ""
    /\ ~last.ok
    /\ \E i \in 1..Len(parsed) :
          /\ last.domain \in VhostAt(parsed, i).names
          /\ ~VhostAt(parsed, i).ssl

\* C19: enhance fails with the unsupported-enhancement error for every kind
\* other than "redirect" and "staple-ocsp" and hands these two to their
\* handlers; the kinds it dispatches are those supported_enhancements lists.
C19_EnhanceDispatch ==
    /\ DOMAIN EnhanceFunc = SupportedEnhancements
    /\ last.op = "enhance" =>
          CASE last.args.enhancement = "redirect" ->
                  /\ last.handler = "_enable_redirect"
                  /\ last.error # ErrUnsupported
            [] last.args.enhancement = "staple-ocsp" ->
                  /\ last.handler = "_enable_ocsp_stapling"
                  /\ last.error # ErrUnsupported
            [] OTHER ->
                  /\ ~last.ok
                  /\ last.error = ErrUnsupported
                  /\ last.handler = "none"

\* a kind without a handler was asked for after a kind with one
C19_Witness ==
    /\ last.op = "enhance"
    /\ last.args.enhancement = "ensure-http-header"
    /\ last.error = ErrUnsupported
    /\ calls = 2
    /\ parsed # disk

\* C20: when an enhancement request fails because the kind is unknown or
\* because a precondition is not met (staple-ocsp with a version below the
\* minimum, or without a chain path), no state is mutated: the tree, the SSL
\* status of every vhost, the cached host and the save notes are as they
\* were.
C20_FailedEnhancementChangesNothing ==
    (last.op = "enhance" /\ ~last.ok
        /\ last.error \in {ErrUnsupported, ErrVersion, ErrNoChain}) =>
        /\ parsed = last.before
        /\ Len(parsed) = Len(last.before)
        /\ \A i \in 1..Len(last.before) :
              i <= Len(parsed) =>
                  VhostAt(parsed, i).ssl = VhostAt(last.before, i).ssl
        /\ new_vhost = last.pre_new_vhost
        /\ save_notes = last.pre_notes

-----------------------------------------------------------------------------
(* The stapling enhancement over versions and chain paths.                 *)

\* the versions of nginx a stapling session may run against
StapleVersions ==
    {<<0, 9, 9>>, <<1, 2, 9>>, <<1, 3, 6>>, <<1, 3, 7>>, <<1, 4, 0>>, <<2, 0, 0>>}

\* the chain paths passed: None, the empty string, a path
StapleChainPaths == {NoPath, "", "chain.pem"}

InitStaple ==
    /\ parsed \in InstallConfigs
    /\ disk = parsed
    /\ new_vhost = NoVhost
    /\ save_notes = <<>>
    /\ backups = NoBackups
    /\ last = [op |-> "init"]
    /\ dup_count = 0
    /\ saves = 0
    /\ snakeoil = 0
    /\ version \in StapleVersions
    /\ calls = 0
    /\ port_type = "int"
    /\ ChallIdle
    /\ RankIdle

\* _enable_ocsp_stapling(domain, chain_path)
EnableOcspStaplingCall ==
    \E domain \in Targets, chain_path \in StapleChainPaths :
        \E r \in {EnableOcspStapling(parsed, new_vhost, save_notes, domain,
                                     chain_path, version, snakeoil)} :
            /\ InstallResult(r)
            /\ last' = InstallCall("_enable_ocsp_stapling", domain,
                                   [chain_path |-> chain_path],
                                   r, parsed, new_vhost, save_notes)
            /\ InstallFrame

NextStaple == EnableOcspStaplingCall

SpecStaple == InitStaple /\ [][NextStaple]_vars

\* lexicographic order of version tuples
LexBelow(a, b) ==
    \E k \in 1..3 : a[k] < b[k] /\ \A j \in 1..(k - 1) : a[j] = b[j]

StaplingKeys == {"ssl_trusted_certificate", "ssl_stapling", "ssl_stapling_verify"}

\* the call added no stapling directive to any block and recorded no note
NoStaplingAdded ==
    /\ Len(parsed) = Len(last.before)
    /\ \A i \in 1..Len(last.before) : \A key \in StaplingKeys :
          i <= Len(parsed) =>
              CountKey(parsed[i], key) = CountKey(last.before[i], key)
    /\ save_notes = last.pre_notes

\* C21: the stapling enhancement fails whenever the version is
\* lexicographically below (1, 3, 7) and passes the version check for every
\* version at or above (1, 3, 7); when it fails on the version no
\* ssl_trusted_certificate, ssl_stapling or ssl_stapling_verify directive is
\* added and no change note is recorded.
C21_StaplingVersionCheck ==
    last.op = "_enable_ocsp_stapling" =>
        /\ LexBelow(version, <<1, 3, 7>>) => ~last.ok
        /\ ~LexBelow(version, <<1, 3, 7>>) => last.error # ErrVersion
        /\ last.error = ErrVersion =>
              /\ LexBelow(version, <<1, 3, 7>>)
              /\ NoStaplingAdded

\* the version check fails for a version whose minor and patch parts are
\* above those of the minimum, on a request that names a chain path
C21_Witness ==
    /\ last.op = "_enable_ocsp_stapling"
    /\ version = <<0, 9, 9>>
    /\ last.error = ErrVersion
    /\ last.args.chain_path = "chain.pem"

\* C22: the stapling enhancement fails for every chain path that is absent
\* or empty, and then adds no ssl_trusted_certificate, ssl_stapling or
\* ssl_stapling_verify directive and records no change note.
C22_StaplingNeedsChainPath ==
    (last.op = "_enable_ocsp_stapling"
        /\ last.args.chain_path \in {NoPath, ""}) =>
        /\ ~last.ok
        /\ NoStaplingAdded

-----------------------------------------------------------------------------
(* ChallengeOrchestrator: perform and cleanup.                             *)

\* longest list of challenges passed to perform or cleanup
MaxChalls == 2
\* most challenges performed, and most cleaned up, in a session
MaxChallTotal == 2

\* a challenge is known by its domain; the collaborator's response to it
Response(achall) == <<"response", achall>>

NoResponse == <<>>

\* the lists of challenges of at most n entries, one challenge per domain
ChallLists(n) ==
    UNION {{f \in [1..k -> Targets] : \A i, j \in 1..k : f[i] = f[j] => i = j} :
              k \in 0..n}

\* the lists passed to cleanup, which looks at their length only
CleanupLists(n) == {[i \in 1..k |-> "new.org"] : k \in 0..n}

\* The order in which the challenge collaborator holds the challenges added
\* with add_chall(achall, i): entry k is the index i of the k-th challenge
\* it holds, processes and answers (chall_doer.indices).
Orders(n) ==
    {f \in [1..n -> 1..n] : \A i, j \in 1..n : f[i] = f[j] => i = j}

\* chall_doer.perform(), the part that changes the configuration: for each
\* challenge held, in the collaborator's order, the vhost is chosen with
\* creation allowed; the first error ends the loop.
\* st: [ok, error, tree, new_vhost, snakeoil, dups]
RECURSIVE DoChallenges(_, _)
DoChallenges(st, domains) ==
    IF domains = <<>> THEN st
    ELSE Bind(ChooseVhost(st.tree, st.new_vhost, Head(domains), TRUE,
                          st.snakeoil),
              LAMBDA r :
                 Bind([ok |-> r.ok, error |-> r.error, tree |-> r.tree,
                       new_vhost |-> r.new_vhost,
                       snakeoil |-> st.snakeoil + (IF r.made_ssl THEN 1 ELSE 0),
                       dups |-> st.dups + (IF r.duplicated THEN 1 ELSE 0)],
                      LAMBDA st1 :
                         IF r.ok THEN DoChallenges(st1, Tail(domains))
                         ELSE st1))

\* every response is put where the collaborator holds it
ResponseIndexMutSame(indices, i) == i

\* "chall_doer.indices[i]": the place of the collaborator's i-th response
ResponseIndex(indices, i) == indices[i]

\* "for i, resp in enumerate(sni_response):
\*      responses[chall_doer.indices[i]] = resp"
RECURSIVE AssignResponses(_, _, _, _)
AssignResponses(responses, sni_response, indices, i) ==
    IF i > Len(sni_response) THEN responses
    ELSE AssignResponses(
             [responses EXCEPT ![ResponseIndex(indices, i)] = sni_response[i]],
             sni_response, indices, i + 1)

\* an error of the collaborator does not end perform
AbortsMutNever(ok) == FALSE

\* an error raised by chall_doer.perform() is not caught in perform
Aborts(ok) == ~ok

\* perform(achalls), with the collaborator holding the challenges in the
\* order `indices`; restart() is taken to succeed.
\* -> whether a list was returned, the error raised, the list, whether
\*    restart() was called, whether the collaborator saved, and the state
\*    of the tree, the cached host and the snakeoil directory afterwards
Perform(tree, cached, n, achalls, indices) ==
    Bind(DoChallenges([ok |-> TRUE, error |-> "", tree |-> tree,
                       new_vhost |-> cached, snakeoil |-> n, dups |-> 0],
                      [k \in 1..Len(achalls) |-> achalls[indices[k]]]),
         LAMBDA st :
            IF Aborts(st.ok)
            THEN [returned |-> FALSE, error |-> st.error,
                  responses |-> <<>>, restarted |-> FALSE, saved |-> FALSE,
                  mutated |-> st.ok, tree |-> st.tree,
                  new_vhost |-> st.new_vhost, snakeoil |-> st.snakeoil,
                  dups |-> st.dups]
            ELSE [returned |-> TRUE,
                  error |-> "",
                  responses |->
                      AssignResponses(
                          [i \in 1..Len(achalls) |-> NoResponse],
                          [k \in 1..Len(achalls) |->
                              Response(achalls[indices[k]])],
                          indices, 1),
                  restarted |-> TRUE, saved |-> achalls # <<>>,
                  mutated |-> st.ok, tree |-> st.tree,
                  new_vhost |-> st.new_vhost, snakeoil |-> st.snakeoil,
                  dups |-> st.dups])

\* the challenges are finished only when none is outstanding
AllFinishedMutZero(out) == out = 0

\* "if self._chall_out <= 0"
AllFinished(out) == out <= 0

\* the counter does not go below zero
ChallOutAfterCleanupMutClamp(out, n) == IF out - n < 0 THEN 0 ELSE out - n

\* "self._chall_out -= len(achalls)"
ChallOutAfterCleanup(out, n) == out - n

\* the configurations a challenge session may start from: one server
\* block, or a plaintext default server followed by one server block
ChallConfigs ==
    {<<b>> : b \in BlockMenu}
        \cup {<< << <<"listen", "80", "default_server">>,
                    <<"server_name", "_">> >>, b >> : b \in BlockMenu}

\* the record of a perform or cleanup call, with the state before it
ChallCall(op, achalls, indices, r) ==
    [op |-> op, achalls |-> achalls, indices |-> indices,
     returned |-> r.returned, error |-> r.error, responses |-> r.responses,
     restarted |-> r.restarted, saved |-> r.saved, mutated |-> r.mutated,
     reverted |-> r.reverted,
     before |-> parsed, pre_new_vhost |-> new_vhost, pre_disk |-> disk,
     pre_backups |-> backups, pre_chall_out |-> chall_out]

InitChall ==
    /\ parsed \in ChallConfigs
    /\ disk = parsed
    /\ new_vhost = NoVhost
    /\ save_notes = <<>>
    /\ backups = NoBackups
    /\ last = Call("init", "", FALSE, NoResult(parsed), parsed, NoVhost, parsed)
    /\ dup_count = 0
    /\ saves = 0
    /\ snakeoil = 0
    /\ version = MinStaplingVersion
    /\ calls = 0
    /\ port_type \in PortTypes
    /\ ChallIdle
    /\ RankIdle

\* perform(achalls)
PerformCall ==
    \E achalls \in {l \in ChallLists(MaxChalls) :
                        performed + Len(l) <= MaxChallTotal} :
        \E indices \in Orders(Len(achalls)) :
            \E r \in {Perform(parsed, new_vhost, snakeoil, achalls, indices)} :
                /\ WithinBounds(r.tree)
                /\ r.snakeoil <= MaxSnakeoil
                /\ chall_out' = chall_out + Len(achalls)
                /\ performed' = performed + Len(achalls)
                /\ parsed' = r.tree
                /\ new_vhost' = r.new_vhost
                /\ snakeoil' = r.snakeoil
                /\ dup_count' = dup_count + r.dups
                \* the collaborator's save("SNI Challenge", temporary=True)
                /\ backups' = IF r.saved
                              THEN AddToCheckpoint(backups, disk, TRUE)
                              ELSE backups
                /\ disk' = IF r.saved THEN r.tree ELSE disk
                /\ save_notes' = IF r.saved THEN <<>> ELSE save_notes
                /\ saves' = saves
                /\ last' = ChallCall("perform", achalls, indices,
                               [returned |-> r.returned, error |-> r.error,
                                responses |-> r.responses,
                                restarted |-> r.restarted, saved |-> r.saved,
                                mutated |-> r.mutated, reverted |-> FALSE])
                /\ UNCHANGED <<cleaned, version, calls, port_type>>
                /\ UNCHANGED rankVars

\* cleanup(achalls)
CleanupCall ==
    \E achalls \in CleanupLists(MaxChalls) :
        \E out \in {ChallOutAfterCleanup(chall_out, Len(achalls))} :
            /\ cleaned + Len(achalls) <= MaxChallTotal
            /\ chall_out' = out
            /\ cleaned' = cleaned + Len(achalls)
            /\ IF AllFinished(out)
               THEN \E rv \in {RevertTemporaryConfig(backups, disk)} :
                       /\ disk' = rv.files
                       /\ backups' = rv.backups
                       /\ new_vhost' = NewVhostAfterRevert(new_vhost)
                       /\ parsed' = rv.files
                       /\ dup_count' = 0
               ELSE UNCHANGED <<disk, backups, new_vhost, parsed, dup_count>>
            /\ last' = ChallCall("cleanup", achalls, <<>>,
                           [returned |-> TRUE, error |-> "",
                            responses |-> <<>>,
                            restarted |-> AllFinished(out), saved |-> FALSE,
                            mutated |-> FALSE, reverted |-> AllFinished(out)])
            /\ UNCHANGED <<save_notes, saves, snakeoil, performed, version, calls,
                           port_type>>
            /\ UNCHANGED rankVars

NextChall ==
    \/ PerformCall
    \/ CleanupCall
    \/ RecoveryRoutine
    \/ RevertChallengeConfig
    \/ RollbackCheckpoints

SpecChall == InitChall /\ [][NextChall]_vars


-----------------------------------------------------------------------------
(* Properties of perform and cleanup.                                      *)

\* C23: perform returns a list as long as the list of challenges whose
\* position i holds the response to challenges[i], for every list and every
\* order in which the collaborator holds and answers the challenges: no
\* position stays empty and none receives another challenge's response.
C23_ResponsesInChallengeOrder ==
    (last.op = "perform" /\ last.returned) =>
        /\ Len(last.responses) = Len(last.achalls)
        /\ \A i \in 1..Len(last.achalls) :
              last.responses[i] = Response(last.achalls[i])

\* two challenges answered by the collaborator in the opposite order
C23_Witness ==
    /\ last.op = "perform"
    /\ last.returned
    /\ Len(last.achalls) = 2
    /\ last.achalls[1] # last.achalls[2]
    /\ last.indices = <<2, 1>>
    /\ last.responses = <<Response(last.achalls[1]), Response(last.achalls[2])>>

\* what cleanup's revert leaves: the files as the temporary checkpoint held
\* them, the tree loaded from them, no temporary checkpoint, no cached host
ChallengeConfigReverted ==
    /\ disk = RevertTemporaryConfig(last.pre_backups, last.pre_disk).files
    /\ backups.temp = <<>>
    /\ parsed = disk
    /\ new_vhost = NoVhost

\* C24: cleanup reverts the temporary challenge configuration and then
\* reloads the server exactly when the outstanding count, after it was
\* decremented, is at most zero; in every other case it reverts nothing
\* and does not reload.
C24_CleanupRevertsWhenNoneOutstanding ==
    last.op = "cleanup" =>
        IF chall_out <= 0
        THEN last.reverted /\ last.restarted /\ ChallengeConfigReverted
        ELSE /\ ~last.reverted
             /\ ~last.restarted
             /\ parsed = last.before
             /\ disk = last.pre_disk
             /\ backups = last.pre_backups
             /\ new_vhost = last.pre_new_vhost

\* a cleanup that takes the count below zero and reverts the challenge
\* configuration a perform call saved
C24_Witness ==
    /\ last.op = "cleanup"
    /\ chall_out < 0
    /\ last.reverted
    /\ last.pre_backups.temp # <<>>
    /\ disk # last.pre_disk

\* a cleanup that leaves a challenge outstanding
C24_WitnessOutstanding ==
    /\ last.op = "cleanup"
    /\ chall_out > 0
    /\ ~last.reverted
    /\ backups.temp # <<>>

\* C25: when the mutation for one of the challenges fails, perform is
\* aborted as a whole: the error propagates, no list of responses is
\* returned and the server is not reloaded; the reload happens only after
\* all mutations are done, and before the responses are returned.
C25_FailedChallengeAbortsPerform ==
    last.op = "perform" =>
        /\ ~last.mutated =>
              /\ ~last.returned
              /\ last.error # ""
              /\ last.responses = <<>>
              /\ ~last.restarted
        /\ last.restarted => last.mutated
        /\ last.returned => last.restarted

\* a perform call for two challenges whose second mutation fails after the
\* first one changed the tree
C25_Witness ==
    /\ last.op = "perform"
    /\ Len(last.achalls) = 2
    /\ ~last.mutated
    /\ ~last.returned
    /\ parsed # last.before
    /\ disk = last.pre_disk

\* C28: the outstanding count is the number of challenges passed to perform
\* minus the number passed to cleanup, over the whole session: perform adds
\* its challenges before any mutation, so that a failed perform counts too,
\* nothing resets the count, and it may go below zero.
C28_OutstandingCount ==
    /\ chall_out = performed - cleaned
    /\ last.op = "perform" =>
          chall_out = last.pre_chall_out + Len(last.achalls)
    /\ last.op = "cleanup" =>
          chall_out = last.pre_chall_out - Len(last.achalls)

\* a perform call that failed and whose two challenges are counted
C28_Witness ==
    /\ last.op = "perform"
    /\ ~last.returned
    /\ Len(last.achalls) = 2
    /\ chall_out = last.pre_chall_out + 2
    /\ chall_out = performed - cleaned

\* the count below zero, and kept there by a revert
C28_WitnessNegative ==
    /\ last.op = "revert_challenge_config"
    /\ chall_out < 0
    /\ performed > 0

\* the last call reverted the configuration
AfterRevert ==
    \/ last.op \in {"recovery_routine", "revert_challenge_config",
                    "rollback_checkpoints"}
    \/ last.op = "cleanup" /\ last.reverted

\* C29: recovery_routine, revert_challenge_config and rollback_checkpoints
\* each revert, clear the cached synthetic host and load the tree again.
\* After any of them, and after the revert done by the last cleanup, no
\* earlier host is reused: the next choose_vhost with creation allowed for a
\* domain no block matches duplicates the default block anew and returns a
\* host whose names are that domain alone.
C29_RevertEndsReuse ==
    AfterRevert =>
        /\ new_vhost = NoVhost
        /\ parsed = disk
        /\ \A d \in Targets :
              \A r \in {ChooseVhost(parsed, new_vhost, d, TRUE, snakeoil)} :
                  (r.ok /\ r.synthesized) =>
                      /\ r.duplicated
                      /\ r.vhost.names = {d}
                      /\ r.new_vhost = r.vhost

\* the last cleanup reverts a configuration that held a synthetic host, and
\* a domain that host was not made for has no block after the revert
C29_Witness ==
    /\ last.op = "cleanup"
    /\ last.reverted
    /\ last.pre_new_vhost # NoVhost
    /\ \E d \in Targets :
          /\ d \notin last.pre_new_vhost.names
          /\ \E r \in {ChooseVhost(parsed, new_vhost, d, TRUE, snakeoil)} :
                r.ok /\ r.synthesized /\ r.duplicated

\* the same after each of the three revert operations
C29_WitnessReverts ==
    /\ last.op \in {"recovery_routine", "revert_challenge_config",
                    "rollback_checkpoints"}
    /\ last.pre_new_vhost # NoVhost
    /\ \E d \in Targets :
          /\ d \notin last.pre_new_vhost.names
          /\ \E r \in {ChooseVhost(parsed, new_vhost, d, TRUE, snakeoil)} :
                r.ok /\ r.synthesized /\ r.duplicated

-----------------------------------------------------------------------------
(* Properties of TLS enablement.                                           *)

\* the places <<block, directive>> of the listen directives that set
\* ipv6only for the port
Ipv6OnlyListens(tree, port) ==
    {p \in UNION {{<<i, j>> : j \in 1..Len(tree[i])} : i \in 1..Len(tree)} :
        /\ IsListen(tree[p[1]][p[2]])
        /\ ParseAddr(tree[p[1]][p[2]]).ipv6only
        /\ ParseAddr(tree[p[1]][p[2]]).port = port}

\* _make_server_ssl added an IPv6 SSL listener to a vhost
Ipv6SslListenerAdded ==
    /\ last.op = "_make_server_ssl"
    /\ last.ok
    /\ Ipv6Enabled(VhostAt(last.before, last.path))

\* C26: TLS enablement puts ipv6only=on on the IPv6 SSL listener it adds
\* if and only if no vhost of the configuration has a listen address that
\* sets ipv6only on the TLS port; hence, applied one after the other to
\* vhosts of a configuration, it leaves at most one listen directive for
\* the TLS port that carries ipv6only=on.
C26_Ipv6OnlyOncePerPort ==
    Ipv6SslListenerAdded =>
        /\ Cardinality(Ipv6OnlyListens(parsed, TlsSni01Port))
              = IF Ipv6OnlyListens(last.before, TlsSni01Port) = {}
                THEN 1
                ELSE Cardinality(Ipv6OnlyListens(last.before, TlsSni01Port))
        /\ Cardinality(Ipv6OnlyListens(disk, TlsSni01Port)) <= 1 =>
              Cardinality(Ipv6OnlyListens(parsed, TlsSni01Port)) <= 1

\* the tree after _make_server_ssl has added everything it adds to the
\* vhost at `path`: the default-port listener of a vhost without a listen
\* directive, the SSL listeners and the certificate directives
MakeServerSslApplied(tree, path, n) ==
    LET first == IF VhostAt(tree, path).addrs = {}
                 THEN << <<"listen", DefaultListenPort>> >>
                 ELSE <<>>
        tree1 == [tree EXCEPT ![path] = @ \o first]
        ssl == SelectSeq(SslBlock(VhostAt(tree1, path),
                                  Ipv6Info(tree, TlsSni01Port), n),
                         LAMBDA d : d # <<>>)
    IN  [tree1 EXCEPT ![path] = @ \o ssl]

\* C27: a mutation operation that ends in an error leaves the in-memory
\* tree and the cached synthetic host as they were before it, or as they
\* are after a complete application; no strict part of its changes stays
\* applied.  Stated for TLS enablement (_make_server_ssl).
C27_FailedMutationIsAllOrNothing ==
    (last.op = "_make_server_ssl" /\ ~last.ok) =>
        \/ parsed = last.before
        \/ parsed = MakeServerSslApplied(last.before, last.path, snakeoil - 1)
====
